---- MODULE Spec2Model ----
(***************************************************************************)
(* Real-time analysis client of Dev-planet.                                *)
(*                                                                         *)
(*   - PlanetForgeAPI (src/src/lib/api.ts): the singleton that owns the    *)
(*     WebSocket, the reconnect counter, the reconnect timers and the      *)
(*     heartbeat timers.                                                   *)
(*   - useRealTimeAnalysis, primary hook (src/unnamed/part_002): the       *)
(*     connect/cleanup effect, handleMessage, handleError, startSession,   *)
(*     endSession, sendCodeAnalysis.                                       *)
(*   - useRealTimeAnalysis, alternate hook (src/src/hooks/useAuth.tsx):    *)
(*     its own socket with a fixed 3 s reconnect (specification SpecAlt).  *)
(*                                                                         *)
(*   - the hook and the editor page of AlgoNebulaContent                   *)
(*     (src/src/components/AlgoNebulaContent.tsx): health check, backend   *)
(*     analysis with local fallback, debounced analysis effect; the        *)
(*     editor page of PersonalPlanetEvolution.backup.tsx.                  *)
(*                                                                         *)
(* Spec is the connection manager under every interleaving of socket       *)
(* events, timers and effect re-runs; SpecSession is the primary hook       *)
(* mounted once with a fixed userId, with the session protocol, the cache   *)
(* and the clock; SpecAlt is the alternate hook's connection.               *)
(* SpecTeardown adds the unload of the page, SpecBuffer a stream of        *)
(* achievement frames to either hook.  SpecLocal calls the hook of         *)
(* AlgoNebulaContent without a backend for every code text of CodeInputs,  *)
(* SpecCache calls it and the alternate hook with a backend and HTTP       *)
(* responses.  SpecPages is one editor page with its debounce timers and   *)
(* the frames or responses that arrive meanwhile.  SpecAuth is the         *)
(* singleton's token under logins, authenticated calls and 401 responses.  *)
(* SpecFrames is the inbound stream of either hook with every frame type   *)
(* and frames that do not parse, SpecSwitch the connect effect when the    *)
(* userId changes from A to B, SpecCacheFair is SpecCache with every       *)
(* fetch settling.                                                         *)
(*                                                                         *)
(* Code texts are sequences of one-character strings; complexity values    *)
(* are kept in hundredths (Centi).                                         *)
(*                                                                         *)
(* The browser runs one handler at a time to completion, so every action   *)
(* below is one whole handler.  A timer is a pending entry that may fire   *)
(* at any later step.  A WebSocket delivers message events only while its  *)
(* readyState is OPEN; a failed connection fires error and close in one    *)
(* task with readyState already CLOSED.                                    *)
(***************************************************************************)
EXTENDS Integers, Sequences, FiniteSets, Bags, TLC

\* ---------------------------------------------------------------- bounds
MaxSockets == 7
MaxUserChanges == 3
MaxSessionSockets == 2
MaxTicks == 2
TickMs == 700
MaxAch == 1
MaxAnalyses == 1
MaxAltSockets == 6
MaxArrivals == 12
MaxAltHttp == 1
LongPad == 968
MaxFetches == 1
MaxTokens == 2
MaxSwitchSockets == 3
MaxAuthRequests == 2

\* ------------------------------------------------------ program constants
maxReconnectAttempts == 5
KeepAchievements == 9
AltKeepAchievements == 4
AnalysisDelay == 100
BackupAnalysisDelay == 1000
NoSocket == 0
NoResult == 0
NoToken == 0

Users == {"A"}
NoUser == "null"
Null == << >>
NoError == "null"
Results == {1, 2}

VARIABLES
  \* PlanetForgeAPI
  readyState,        \* readyState of every WebSocket created so far, by id
  sockUser,          \* userId captured by the handlers of each socket
  websocket,         \* this.websocket: a socket id or NoSocket
  reconnectAttempts, \* this.reconnectAttempts
  reconnectTimers,   \* bag of pending setTimeout(connectWebSocket) closures
  heartbeatTimers,   \* number of pending setTimeout(startHeartbeat)
  \* primary hook
  hookUser,          \* the userId the connect effect currently runs for
  isConnected,
  connectionError,
  sessionActive,
  sessionStartTime,  \* Null or <<ms>>
  analysisCount,
  latestAnalysis,
  recentAchievements,
  \* environment
  now,               \* Date.now() in ticks of TickMs
  achSeq,            \* number of achievements the server has issued
  \* observation of the last step
  last,              \* [op, sock, ra, val]: the handler that ran, its socket, reconnectAttempts
                     \* before it, the payload of the frame it handled
  handed,            \* messages passed to sendWebSocketMessage by the step
  emitted,           \* frames websocket.send() transmitted in the step
  thrown,            \* the call of the step threw
  explicitDown,      \* disconnectWebSocket() ran and no effect connected since
  sessionConn,       \* readyState of the delivering socket when the session became active
  userChanges,       \* number of times the connect effect has re-run
  \* alternate hook (useAuth.tsx)
  altReady,          \* readyState of every socket the alternate hook created
  altWsRef,          \* wsRef.current
  altIsConnected,
  altTimers,         \* number of pending setTimeout(connectWebSocket, 3000)
  altRefPending,     \* the timer held in reconnectTimeoutRef is still pending
  altMounted,
  altFailed,         \* consecutive reconnect attempts that closed without opening
  altOrigin,         \* who created each socket of the alternate hook
  altLast,
  \* alternate hook: session and cache
  altSessionActive,
  altStats,          \* sessionStats: "null", or where the value came from
  altLatest,         \* latestAnalysis: Null or <<analysis>>
  altAchievements,   \* recentAchievements
  altHttp,           \* bag of fetch() calls whose promise has not settled
  altArrived,        \* the frame onmessage handled last
  \* page
  unloaded,          \* beforeunload has been dispatched; the page is being discarded
  \* hook of AlgoNebulaContent
  nebHealth,         \* the health check of the mount effect: "init", "pending", "done"
  nebConnected,      \* isConnected
  nebSessionActive,
  nebLatest,         \* latestAnalysis
  nebFetches,        \* bag of POST /genome/analyze fetches that have not settled
  nebSource,         \* which path wrote latestAnalysis last, and for which arguments
  \* editor page
  code,
  selectedChallenge,
  sessionStarted,
  analysisTimers,    \* pending setTimeout(analyzeCode): [due, code, conn, cause]
  feedbackTimers,    \* pending setTimeout of startCodingSession: [due, code, conn]
  issued,            \* the sendCodeAnalysis calls of the last step of the page
  lastChange,        \* Null or <<ms>>: when the code last changed
  burstRequests,     \* analyses that timers armed for a code change have requested
                     \* since the burst began
  burstChanges,      \* code changes of the burst: 1, or 2 for two and more
  callArgs,          \* the arguments a direct caller of sendCodeAnalysis passes
  \* PlanetForgeAPI: authentication
  token,             \* this.token: NoToken or a token
  storedToken,       \* localStorage 'planet_forge_token'
  authRequests,      \* bag of fetches of authenticatedRequest that have not settled
  tokenSeq,          \* number of tokens the server has issued
  revoked,           \* tokens the server has answered 401 to
  \* PlanetForgeAPI: backoff
  lastDelay          \* delay of the reconnect timer armed last since the last onopen, or 0

apiVars == <<readyState, sockUser, websocket, reconnectAttempts, reconnectTimers, heartbeatTimers>>
hookVars == <<hookUser, isConnected, connectionError, sessionActive, sessionStartTime,
              analysisCount, latestAnalysis, recentAchievements>>
envVars == <<now, achSeq>>
obsVars == <<last, handed, emitted, thrown, explicitDown, sessionConn, userChanges>>
altVars == <<altReady, altWsRef, altIsConnected, altTimers, altRefPending, altMounted,
             altFailed, altOrigin, altLast>>
altCacheVars == <<altSessionActive, altStats, altLatest, altAchievements, altHttp, altArrived>>
pageVars == <<unloaded>>
nebVars == <<nebHealth, nebConnected, nebSessionActive, nebLatest, nebFetches, nebSource>>
editorVars == <<code, selectedChallenge, sessionStarted, analysisTimers, feedbackTimers,
                issued, lastChange, burstRequests, burstChanges, callArgs>>
authVars == <<token, storedToken, authRequests, tokenSeq, revoked>>
backoffVars == <<lastDelay>>
extVars == <<altCacheVars, pageVars, nebVars, editorVars, authVars, backoffVars>>
vars == <<apiVars, hookVars, envVars, obsVars, altVars, extVars>>

\* ------------------------------------------------------------- helpers
NowMs == now * TickMs

IsOpen(rs, ws) == ws # NoSocket /\ rs[ws] = "OPEN"

Live(rs) == {s \in DOMAIN rs : rs[s] \in {"CONNECTING", "OPEN"}}

Msg(t, d) == [type |-> t, dur |-> d]

Frame(m, ws) == [type |-> m.type, dur |-> m.dur, sock |-> ws]

\* WebSocket.close(): CONNECTING and OPEN go to CLOSING, otherwise nothing
WsClose(st) == IF st \in {"CONNECTING", "OPEN"} THEN "CLOSING" ELSE st

NoMetrics == [lines |-> 0, functions |-> 0, comments |-> 0, complexity |-> 0]

\* ---------------------------------------------------------------- code text
\* Code text is a sequence of one-character strings.
Whitespace == {" ", "\n", "\t"}

\* String.prototype.includes
Includes(text, kw) ==
  \E i \in 1..(Len(text) - Len(kw) + 1) :
    text[i] = kw[1] /\ SubSeq(text, i, i + Len(kw) - 1) = kw

\* !text.trim()
Blank(text) == \A i \in 1..Len(text) : text[i] \in Whitespace

\* n characters with no feature in them
Filler(n) == [i \in 1..n |-> "x"]

Min(a, b) == IF a < b THEN a ELSE b

Max(a, b) == IF a > b THEN a ELSE b

\* the substrings performLocalAnalysis and the regular expressions of analyzeCode
\* look for
Kw ==
  [function |-> <<"f", "u", "n", "c", "t", "i", "o", "n">>,
   def |-> <<"d", "e", "f", " ">>,
   arrow |-> <<"=", ">">>,
   class |-> <<"c", "l", "a", "s", "s", " ">>,
   slashes |-> <<"/", "/">>,
   hash |-> <<"#">>,
   slashstar |-> <<"/", "*">>,
   for |-> <<"f", "o", "r">>,
   while |-> <<"w", "h", "i", "l", "e">>,
   map |-> <<"m", "a", "p">>,
   reduce |-> <<"r", "e", "d", "u", "c", "e">>,
   try |-> <<"t", "r", "y">>,
   catch |-> <<"c", "a", "t", "c", "h">>,
   except |-> <<"e", "x", "c", "e", "p", "t">>,
   async |-> <<"a", "s", "y", "n", "c">>,
   await |-> <<"a", "w", "a", "i", "t">>,
   Promise |-> <<"P", "r", "o", "m", "i", "s", "e">>,
   const |-> <<"c", "o", "n", "s", "t", " ">>,
   starslash |-> <<"*", "/">>]

\* setCode(`// Write your ${language} solution here...\n`) with language "javascript"
ChallengeTemplate ==
  <<"/", "/", " ", "W", "r", "i", "t", "e", " ", "y", "o", "u", "r", " ",
    "j", "a", "v", "a", "s", "c", "r", "i", "p", "t", " ", "s", "o", "l",
    "u", "t", "i", "o", "n", " ", "h", "e", "r", "e", ".", ".", ".", "\n">>

\* words a program may contain
W_before ==
  <<"b", "e", "f", "o", "r", "e">>

W_return ==
  <<"r", "e", "t", "u", "r", "n", " ", "x", ";">>

W_space ==
  <<" ">>

W_newline ==
  <<"\n">>


\* ------------------------------- local fallback analyzer (AlgoNebulaContent)
hasGoodStructure(codeText) ==
  \/ Includes(codeText, Kw.function)
  \/ Includes(codeText, Kw.def)
  \/ Includes(codeText, Kw.arrow)
  \/ Includes(codeText, Kw.class)

hasComments(codeText) ==
  \/ Includes(codeText, Kw.slashes)
  \/ Includes(codeText, Kw.hash)
  \/ Includes(codeText, Kw.slashstar)

hasOptimization(codeText) ==
  \/ Includes(codeText, Kw.for)
  \/ Includes(codeText, Kw.while)
  \/ Includes(codeText, Kw.map)
  \/ Includes(codeText, Kw.reduce)

hasErrorHandling(codeText) ==
  \/ Includes(codeText, Kw.try)
  \/ Includes(codeText, Kw.catch)
  \/ Includes(codeText, Kw.except)

hasAsync(codeText) ==
  \/ Includes(codeText, Kw.async)
  \/ Includes(codeText, Kw.await)
  \/ Includes(codeText, Kw.Promise)

\* the length tiers without the branch for the empty text
BaseTier_noEmpty(codeLength) ==
  IF codeLength < 50
  THEN [suggestion |-> "Great start! Your planet is beginning to form...",
        style |-> "embryonic", points |-> Max(1, codeLength \div 5), complexity |-> 1]
  ELSE [suggestion |-> "Local analysis: Your code is taking shape!",
        style |-> "developing", points |-> codeLength \div 3,
        complexity |-> Min(8, codeLength \div 15)]

\* the if / else if / else on codeLength: baseline suggestion, style, points, complexity
BaseTier(codeLength) ==
  IF codeLength = 0
  THEN [suggestion |-> "Start coding to see your planet evolve!",
        style |-> "empty", points |-> 0, complexity |-> 0]
  ELSE IF codeLength < 50
  THEN [suggestion |-> "Great start! Your planet is beginning to form...",
        style |-> "embryonic", points |-> Max(1, codeLength \div 5), complexity |-> 1]
  ELSE [suggestion |-> "Local analysis: Your code is taking shape!",
        style |-> "developing", points |-> codeLength \div 3,
        complexity |-> Min(8, codeLength \div 15)]

\* a bonus granted whether or not the feature was detected
Bonus_always(detected, suggestion, points, complexity) ==
  << [suggestion |-> suggestion, points |-> points, complexity |-> complexity] >>

\* one feature detection bonus: if (has...) { suggestions.push; points +=; complexity += }
Bonus(detected, suggestion, points, complexity) ==
  IF detected
  THEN << [suggestion |-> suggestion, points |-> points, complexity |-> complexity] >>
  ELSE << >>

\* the five bonuses in the order the code applies them
FeatureBonuses(codeText) ==
  Bonus(hasGoodStructure(codeText), "Excellent code structure detected!", 10, 2)
  \o Bonus(hasComments(codeText), "Great documentation! Clean code wins!", 8, 1)
  \o Bonus(hasOptimization(codeText), "Efficient algorithms detected!", 12, 3)
  \o Bonus(hasErrorHandling(codeText), "Robust error handling! Well done!", 15, 2)
  \o Bonus(hasAsync(codeText), "Async patterns found! Modern coding!", 10, 2)

RECURSIVE SumField(_, _)
SumField(bs, f) == IF bs = << >> THEN 0 ELSE bs[1][f] + SumField(Tail(bs), f)

\* complexity values are kept in hundredths: analyzeCode passes code.length / 50
Centi == 100

\* performLocalAnalysis: the analysis it puts into the cache (metrics is not read)
PerformLocalAnalysis(codeText, metrics) ==
  LET base == BaseTier(Len(codeText))
      bonuses == FeatureBonuses(codeText)
      evolutionPoints == base.points + SumField(bonuses, "points")
      complexityScore == base.complexity + SumField(bonuses, "complexity")
  IN [evolution_points |-> Min(100, Max(0, evolutionPoints)),
      complexity_score |-> Min(10, Max(0, complexityScore)) * Centi,
      style_feedback |-> base.style,
      suggestions |-> << base.suggestion >>
                      \o [i \in 1..Len(bonuses) |-> bonuses[i].suggestion]]

\* useState initial value of latestAnalysis
\* no backend response
NoData == [evolution_points |-> 0, complexity_score |-> 0, style_feedback |-> "",
           suggestions |-> << >>, quality |-> ""]

ReadyToCode ==
  [evolution_points |-> 0, complexity_score |-> 1 * Centi, style_feedback |-> "ready-to-code",
   suggestions |-> << "Connecting to Planet Forge API..." >>]

\* the metrics the page passes when the code is cleared
ResetMetrics == [lines |-> 0, functions |-> 0, comments |-> 0, complexity |-> 1 * Centi]

\* what the backend may answer to POST /genome/analyze; a missing field is
\* 0, "" or << >>
BackendData ==
  {[evolution_points |-> 40, complexity_score |-> 4 * Centi, style_feedback |-> "clean",
    suggestions |-> << "Nice work" >>, quality |-> "High"],
   [evolution_points |-> 0, complexity_score |-> 0, style_feedback |-> "",
    suggestions |-> << >>, quality |-> ""]}

\* a || b on numbers, strings and arrays that may be missing
OrElse(a, missing, b) == IF a = missing THEN b ELSE a

\* "Transform backend response to our format"
TransformBackend(analysisData, codeText, metrics) ==
  [evolution_points |-> OrElse(analysisData.evolution_points, 0, Len(codeText) \div 10),
   complexity_score |-> OrElse(analysisData.complexity_score, 0, Min(10 * Centi, metrics.complexity)),
   style_feedback |-> OrElse(analysisData.style_feedback, "", "backend-analyzed"),
   suggestions |-> OrElse(analysisData.suggestions, << >>,
      << "Backend analysis complete!",
         "Code quality: " \o OrElse(analysisData.quality, "", "Good"),
         "Evolution: +" \o ToString(OrElse(analysisData.evolution_points, 0, 10)) \o " points" >>)]

\* ------------------------------------------------------- PlanetForgeAPI
\* connectWebSocket: returns early only when this.websocket is OPEN
ConnectWebSocket(rs, su, ws, u) ==
  IF IsOpen(rs, ws)
  THEN [rs |-> rs, su |-> su, ws |-> ws]
  ELSE [rs |-> Append(rs, "CONNECTING"), su |-> Append(su, u), ws |-> Len(rs) + 1]

\* disconnectWebSocket: close() and forget the socket; its handlers stay attached
DisconnectWebSocket(rs, ws) ==
  IF ws # NoSocket
  THEN [rs |-> [rs EXCEPT ![ws] = WsClose(rs[ws])], ws |-> NoSocket]
  ELSE [rs |-> rs, ws |-> ws]

\* a delay that grows by two seconds per attempt
ReconnectDelay_linear(attempt) == attempt * 2000

\* const delay = Math.pow(2, this.reconnectAttempts) * 1000
ReconnectDelay(attempt) == (2 ^ attempt) * 1000

\* attemptReconnect
AttemptReconnect(ra, rt, u) ==
  IF ra < maxReconnectAttempts
  THEN [ra |-> ra + 1,
        rt |-> rt (+) SetToBag({[user |-> u, delay |-> ReconnectDelay(ra + 1)]})]
  ELSE [ra |-> ra, rt |-> rt]

\* sendWebSocketMessage without the readyState guard
SendWebSocketMessage_unguarded(rs, ws, m) == << Frame(m, ws) >>

\* sendWebSocketMessage: the frames it transmits
SendWebSocketMessage(rs, ws, m) ==
  IF IsOpen(rs, ws) THEN << Frame(m, ws) >> ELSE << >>

\* startHeartbeat: the message it hands to sendWebSocketMessage, the timer it arms
StartHeartbeat(rs, ws, hb) ==
  IF IsOpen(rs, ws)
  THEN [handed |-> << Msg("heartbeat", 0) >>, hb |-> hb + 1]
  ELSE [handed |-> << >>, hb |-> hb]

\* onopen that forgets to reset the counter
OnOpenAttempts_kept(ra) == ra

\* onopen: this.reconnectAttempts = 0
OnOpenAttempts(ra) == 0

\* the frames a step transmits for the messages it hands over
Transmit(rs, ws, ms) ==
  IF ms = << >> THEN << >> ELSE SendWebSocketMessage(rs, ws, ms[1])


\* ------------------------------------------------------- primary hook
\* duration rounded to the nearest second instead of floored
SessionDuration_rounded(nowMs, st) == (nowMs - st[1] + 500) \div 1000

\* sessionDuration: Math.floor((Date.now() - start) / 1000)
SessionDuration(nowMs, st) == (nowMs - st[1]) \div 1000

\* duration that keeps counting from page load while no session is active
StatsDuration_elapsed(st, nowMs) ==
  IF st = Null THEN nowMs \div 1000 ELSE SessionDuration(nowMs, st)

\* sessionDuration = sessionStartTime.current ? Math.floor(...) : 0
StatsDuration(st, nowMs) ==
  IF st = Null THEN 0 ELSE SessionDuration(nowMs, st)

\* startSession that marks the session active on request, connected or not
HookStartSession_optimistic(conn, sa) ==
  [thrown |-> FALSE, handed |-> << Msg("start_session", 0) >>, active |-> TRUE]

\* startSession: throws unless isConnected, else hands start_session to the API;
\* it writes no session state
HookStartSession(conn, sa) ==
  IF ~conn
  THEN [thrown |-> TRUE, handed |-> << >>, active |-> sa]
  ELSE [thrown |-> FALSE, handed |-> << Msg("start_session", 0) >>, active |-> sa]

\* endSession without the early return
HookEndSession_unguarded(sa, st, nowMs) ==
  << Msg("end_session", IF st = Null THEN 0 ELSE (nowMs - st[1]) \div 1000) >>

\* endSession: returns early without an active session and a start time
HookEndSession(sa, st, nowMs) ==
  IF ~sa \/ st = Null
  THEN << >>
  ELSE << Msg("end_session", SessionDuration(nowMs, st)) >>

\* sendCodeAnalysis: warns and returns unless isConnected
HookSendCodeAnalysis(conn) ==
  IF ~conn THEN << >> ELSE << Msg("code_analysis", 0) >>

\* a cache that keeps the first result it was given
OnAnalysisResult_keepFirst(prev, result) == IF prev = NoResult THEN result ELSE prev

\* case 'analysis_result': setLatestAnalysis(data.result)
OnAnalysisResult(prev, result) == result

\* what is behind a timer that an effect arms because sessionActive changed:
\* the code change whose pending timer it replaces, or the session
PendingCause(timers) ==
  IF \E t \in timers : t.cause = "code" THEN "code" ELSE "session"

\* a cleanup that leaves the pending timer armed
CancelPending_kept(timers) == timers

\* the cleanup of an analysis effect: clearTimeout(analysisTimer)
CancelPending(timers) == {}

\* the analysis effect of PersonalPlanetEvolution.backup after code or
\* sessionActive changed: the cleanup of the previous run, then a timer if
\* there is code, an active session and a selected challenge; cause records
\* whether a code change or a session change is behind the timer
BackupAnalysisEffect(timers, c, sa, ch, conn, nowMs, cause) ==
  CancelPending(timers)
    \cup (IF Len(c) > 0 /\ sa /\ ch
          THEN {[due |-> nowMs + BackupAnalysisDelay, code |-> c, conn |-> conn,
                 cause |-> cause]}
          ELSE {})

\* a buffer that is never truncated
PushAchievement_unbounded(prev, a) == << a >> \o prev

\* setRecentAchievements(prev => [achievement, ...prev.slice(0, 9)])
PushAchievement(prev, a) ==
  << a >> \o SubSeq(prev, 1, IF Len(prev) < KeepAchievements THEN Len(prev) ELSE KeepAchievements)

\* the types handleMessage has a case for
KnownTypes ==
  {"connected", "analysis_result", "achievement_unlocked", "planet_evolution",
   "session_started", "session_ended", "error"}

\* a switch whose default branch reports the frame as an error
OnFrameError_strict(type, prev) ==
  CASE type = "connected" -> NoError
    [] type = "error" -> "server"
    [] type \notin KnownTypes -> "unknown"
    [] OTHER -> prev

\* connectionError after handleMessage: case 'connected' clears it, case
\* 'error' sets it to data.message, no other case and no default touches it
OnFrameError(type, prev) ==
  CASE type = "connected" -> NoError
    [] type = "error" -> "server"
    [] OTHER -> prev

\* the frames the server may send on an open socket
Inbound ==
  [type : {"connected", "planet_evolution", "session_started", "session_ended", "unknown"},
   val : {0}]
  \cup [type : {"analysis_result"}, val : Results]
  \cup [type : {"achievement_unlocked"}, val : {achSeq + 1}]
  \cup [type : {"error"}, val : {1}]

ConnOf(rs, ws) == IF ws = NoSocket THEN "none" ELSE rs[ws]

\* bookkeeping of the last step
Obs(op, s, h, e, th) ==
  /\ last' = [op |-> op, sock |-> s, ra |-> reconnectAttempts, val |-> 0]
  /\ handed' = h
  /\ emitted' = e
  /\ thrown' = th

\* bookkeeping of a step that handled the frame d of socket s
ObsFrame(d, s) ==
  /\ last' = [op |-> "message:" \o d.type, sock |-> s, ra |-> reconnectAttempts, val |-> d.val]
  /\ handed' = << >>
  /\ emitted' = << >>
  /\ thrown' = FALSE

\* the reconnect timers a step armed
Scheduled == BagToSet(reconnectTimers' (-) reconnectTimers)

\* bookkeeping of the delay armed last
TrackDelay ==
  lastDelay' = IF Scheduled = {} THEN lastDelay ELSE (CHOOSE t \in Scheduled : TRUE).delay

TrackSession(conn) ==
  sessionConn' = IF sessionActive' /\ ~sessionActive THEN conn
                 ELSE IF ~sessionActive' THEN "none" ELSE sessionConn

\* sessionStats as a render computes it
sessionStats ==
  [duration |-> StatsDuration(sessionStartTime, NowMs), analysisCount |-> analysisCount]

InitArgs(codeText, metrics) ==
  /\ callArgs = [code |-> codeText, metrics |-> metrics]
  /\ readyState = << >>
  /\ sockUser = << >>
  /\ websocket = NoSocket
  /\ reconnectAttempts = 0
  /\ reconnectTimers = EmptyBag
  /\ heartbeatTimers = 0
  /\ hookUser = NoUser
  /\ isConnected = FALSE
  /\ connectionError = NoError
  /\ sessionActive = FALSE
  /\ sessionStartTime = Null
  /\ analysisCount = 0
  /\ latestAnalysis = NoResult
  /\ recentAchievements = << >>
  /\ now = 0
  /\ achSeq = 0
  /\ last = [op |-> "init", sock |-> NoSocket, ra |-> 0, val |-> 0]
  /\ handed = << >>
  /\ emitted = << >>
  /\ thrown = FALSE
  /\ explicitDown = FALSE
  /\ sessionConn = "none"
  /\ userChanges = 0
  /\ altReady = << >>
  /\ altWsRef = NoSocket
  /\ altIsConnected = FALSE
  /\ altTimers = 0
  /\ altRefPending = FALSE
  /\ altMounted = "init"
  /\ altFailed = 0
  /\ altOrigin = << >>
  /\ altLast = "init"
  /\ altSessionActive = FALSE
  /\ altStats = "null"
  /\ altLatest = Null
  /\ altAchievements = << >>
  /\ altHttp = EmptyBag
  /\ altArrived = [type |-> "none", val |-> 0]
  /\ unloaded = FALSE
  /\ nebHealth = "init"
  /\ nebConnected = FALSE
  /\ nebSessionActive = FALSE
  /\ nebLatest = ReadyToCode
  /\ nebFetches = EmptyBag
  /\ nebSource = [path |-> "init", code |-> << >>, metrics |-> NoMetrics, data |-> NoData]
  /\ code = << >>
  /\ selectedChallenge = FALSE
  /\ sessionStarted = FALSE
  /\ analysisTimers = {}
  /\ feedbackTimers = {}
  /\ issued = << >>
  /\ lastChange = Null
  /\ burstRequests = 0
  /\ burstChanges = 0
  /\ token = NoToken
  /\ storedToken = NoToken
  /\ authRequests = EmptyBag
  /\ tokenSeq = 0
  /\ revoked = {}
  /\ lastDelay = 0

\* the state after construction
Init == InitArgs(<< >>, ResetMetrics)

\* the connect/disconnect effect re-runs because userId changed: cleanup for the
\* old userId (disconnectWebSocket, setIsConnected(false)), then connectWebSocket
\* for the new one; NoUser stands for a null userId and for the unmounted hook
SetUserId(u) ==
  /\ u # hookUser
  /\ userChanges < MaxUserChanges
  /\ userChanges' = userChanges + 1
  /\ LET d == IF hookUser # NoUser THEN DisconnectWebSocket(readyState, websocket)
              ELSE [rs |-> readyState, ws |-> websocket]
         c == IF u # NoUser THEN ConnectWebSocket(d.rs, sockUser, d.ws, u)
              ELSE [rs |-> d.rs, su |-> sockUser, ws |-> d.ws]
     IN /\ Len(c.rs) <= MaxSockets
        /\ readyState' = c.rs
        /\ sockUser' = c.su
        /\ websocket' = c.ws
  /\ hookUser' = u
  /\ isConnected' = IF hookUser # NoUser THEN FALSE ELSE isConnected
  /\ explicitDown' = (u = NoUser)
  /\ Obs("setUserId", NoSocket, << >>, << >>, FALSE)
  /\ UNCHANGED <<reconnectAttempts, reconnectTimers, heartbeatTimers, connectionError,
                 sessionActive, sessionStartTime, analysisCount, latestAnalysis,
                 recentAchievements, sessionConn>>
  /\ UNCHANGED <<envVars, altVars, extVars>>

\* websocket.onopen
SocketOpen(s) ==
  /\ s \in DOMAIN readyState
  /\ readyState[s] = "CONNECTING"
  /\ LET rs2 == [readyState EXCEPT ![s] = "OPEN"]
         h == StartHeartbeat(rs2, websocket, heartbeatTimers)
     IN /\ readyState' = rs2
        /\ heartbeatTimers' = h.hb
        /\ Obs("open", s, h.handed, Transmit(rs2, websocket, h.handed), FALSE)
  /\ reconnectAttempts' = OnOpenAttempts(reconnectAttempts)
  /\ lastDelay' = 0
  /\ UNCHANGED <<sockUser, websocket, reconnectTimers, explicitDown, sessionConn, userChanges>>
  /\ UNCHANGED <<hookVars, envVars, altVars>>
  /\ UNCHANGED <<altCacheVars, pageVars, nebVars, editorVars, authVars>>

\* websocket.onmessage with a frame that parses: handleMessage(data)
SocketMessage(s, d) ==
  /\ s \in DOMAIN readyState
  /\ readyState[s] = "OPEN"
  /\ d \in Inbound
  /\ isConnected' = IF d.type = "connected" THEN TRUE ELSE isConnected
  /\ connectionError' = OnFrameError(d.type, connectionError)
  /\ latestAnalysis' = IF d.type = "analysis_result"
                       THEN OnAnalysisResult(latestAnalysis, d.val) ELSE latestAnalysis
  /\ analysisCount' = CASE d.type = "analysis_result" -> analysisCount + 1
                        [] d.type = "session_ended" -> 0
                        [] OTHER -> analysisCount
  /\ recentAchievements' = IF d.type = "achievement_unlocked"
                           THEN PushAchievement(recentAchievements, d.val)
                           ELSE recentAchievements
  /\ achSeq' = IF d.type = "achievement_unlocked" THEN achSeq + 1 ELSE achSeq
  /\ sessionActive' = CASE d.type = "session_started" -> TRUE
                        [] d.type = "session_ended" -> FALSE
                        [] OTHER -> sessionActive
  /\ sessionStartTime' = CASE d.type = "session_started" -> << NowMs >>
                           [] d.type = "session_ended" -> Null
                           [] OTHER -> sessionStartTime
  /\ TrackSession(readyState[s])
  /\ analysisTimers' = IF sessionActive' # sessionActive
                       THEN BackupAnalysisEffect(analysisTimers, code, sessionActive',
                                                 selectedChallenge, isConnected', NowMs,
                                                 PendingCause(analysisTimers))
                       ELSE analysisTimers
  /\ ObsFrame(d, s)
  /\ UNCHANGED <<apiVars, hookUser, now, explicitDown, userChanges, altVars>>
  /\ UNCHANGED <<altCacheVars, pageVars, authVars, backoffVars, nebVars, code, selectedChallenge, sessionStarted,
                 feedbackTimers, issued, lastChange, burstRequests, burstChanges, callArgs>>

\* an onmessage whose parse error closes the socket
SocketMalformed_teardown(s) ==
  /\ s \in DOMAIN readyState
  /\ readyState[s] = "OPEN"
  /\ readyState' = [readyState EXCEPT ![s] = "CLOSING"]
  /\ Obs("malformed", s, << >>, << >>, FALSE)
  /\ UNCHANGED <<sockUser, websocket, reconnectAttempts, reconnectTimers, heartbeatTimers>>
  /\ UNCHANGED <<hookVars, envVars, explicitDown, sessionConn, userChanges, altVars, extVars>>

\* websocket.onmessage with a frame JSON.parse rejects: caught and logged
SocketMalformed(s) ==
  /\ s \in DOMAIN readyState
  /\ readyState[s] = "OPEN"
  /\ Obs("malformed", s, << >>, << >>, FALSE)
  /\ UNCHANGED <<apiVars, hookVars, envVars, explicitDown, sessionConn, userChanges, altVars, extVars>>

\* the connection fails: readyState CLOSED, then onerror (handleError) and
\* onclose (attemptReconnect) in the same task
SocketFail(s) ==
  /\ s \in DOMAIN readyState
  /\ readyState[s] \in {"CONNECTING", "OPEN", "CLOSING"}
  /\ readyState' = [readyState EXCEPT ![s] = "CLOSED"]
  /\ isConnected' = FALSE
  /\ connectionError' = "websocket"
  /\ LET r == AttemptReconnect(reconnectAttempts, reconnectTimers, sockUser[s])
     IN /\ reconnectAttempts' = r.ra
        /\ reconnectTimers' = r.rt
  /\ TrackDelay
  /\ Obs("fail", s, << >>, << >>, FALSE)
  /\ UNCHANGED <<sockUser, websocket, heartbeatTimers, hookUser, sessionActive,
                 sessionStartTime, analysisCount, latestAnalysis, recentAchievements,
                 explicitDown, sessionConn, userChanges>>
  /\ UNCHANGED <<envVars, altVars>>
  /\ UNCHANGED <<altCacheVars, pageVars, nebVars, editorVars, authVars>>

\* the connection closes cleanly (by the peer, or the close handshake that
\* close() started completes): onclose only
SocketClose(s) ==
  /\ s \in DOMAIN readyState
  /\ readyState[s] \in {"OPEN", "CLOSING"}
  /\ readyState' = [readyState EXCEPT ![s] = "CLOSED"]
  /\ LET r == AttemptReconnect(reconnectAttempts, reconnectTimers, sockUser[s])
     IN /\ reconnectAttempts' = r.ra
        /\ reconnectTimers' = r.rt
  /\ TrackDelay
  /\ Obs("close", s, << >>, << >>, FALSE)
  /\ UNCHANGED <<sockUser, websocket, heartbeatTimers, explicitDown, sessionConn, userChanges>>
  /\ UNCHANGED <<hookVars, envVars, altVars>>
  /\ UNCHANGED <<altCacheVars, pageVars, nebVars, editorVars, authVars>>

\* a reconnect timer fires: connectWebSocket(userId, onMessage, onError)
ReconnectTimerFire(t) ==
  /\ BagIn(t, reconnectTimers)
  /\ reconnectTimers' = reconnectTimers (-) SetToBag({t})
  /\ LET c == ConnectWebSocket(readyState, sockUser, websocket, t.user)
     IN /\ Len(c.rs) <= MaxSockets
        /\ readyState' = c.rs
        /\ sockUser' = c.su
        /\ websocket' = c.ws
  /\ Obs("reconnectTimer", NoSocket, << >>, << >>, FALSE)
  /\ UNCHANGED <<reconnectAttempts, heartbeatTimers, explicitDown, sessionConn, userChanges>>
  /\ UNCHANGED <<hookVars, envVars, altVars, extVars>>

\* a heartbeat timer fires: startHeartbeat()
HeartbeatTimerFire ==
  /\ heartbeatTimers > 0
  /\ LET h == StartHeartbeat(readyState, websocket, heartbeatTimers - 1)
     IN /\ heartbeatTimers' = h.hb
        /\ Obs("heartbeatTimer", websocket, h.handed,
               Transmit(readyState, websocket, h.handed), FALSE)
  /\ UNCHANGED <<readyState, sockUser, websocket, reconnectAttempts, reconnectTimers,
                 explicitDown, sessionConn, userChanges>>
  /\ UNCHANGED <<hookVars, envVars, altVars, extVars>>

\* the component calls startSession(sessionData)
StartSession ==
  /\ LET r == HookStartSession(isConnected, sessionActive)
     IN /\ sessionActive' = r.active
        /\ Obs("startSession", websocket, r.handed,
               Transmit(readyState, websocket, r.handed), r.thrown)
  /\ TrackSession(ConnOf(readyState, websocket))
  /\ UNCHANGED <<apiVars, hookUser, isConnected, connectionError, sessionStartTime,
                 analysisCount, latestAnalysis, recentAchievements>>
  /\ UNCHANGED <<envVars, explicitDown, userChanges, altVars, extVars>>

\* the component calls endSession()
EndSession ==
  /\ LET h == HookEndSession(sessionActive, sessionStartTime, NowMs)
     IN Obs("endSession", websocket, h, Transmit(readyState, websocket, h), FALSE)
  /\ UNCHANGED <<apiVars, hookVars, envVars, explicitDown, sessionConn, userChanges, altVars, extVars>>

\* the component calls sendCodeAnalysis(metrics)
SendCodeAnalysis ==
  /\ LET h == HookSendCodeAnalysis(isConnected)
     IN Obs("sendCodeAnalysis", websocket, h, Transmit(readyState, websocket, h), FALSE)
  /\ UNCHANGED <<apiVars, hookVars, envVars, explicitDown, sessionConn, userChanges, altVars, extVars>>

\* clearAchievements: () => setRecentAchievements([])
ClearAchievements ==
  /\ recentAchievements' = << >>
  /\ Obs("clearAchievements", NoSocket, << >>, << >>, FALSE)
  /\ UNCHANGED <<apiVars, hookUser, isConnected, connectionError, sessionActive,
                 sessionStartTime, analysisCount, latestAnalysis>>
  /\ UNCHANGED <<envVars, explicitDown, sessionConn, userChanges, altVars, extVars>>

\* time passes
Tick ==
  /\ now < MaxTicks
  /\ now' = now + 1
  /\ Obs("tick", NoSocket, << >>, << >>, FALSE)
  /\ UNCHANGED <<apiVars, hookVars, achSeq, explicitDown, sessionConn, userChanges, altVars, extVars>>

\* beforeunload listener that never ends the session
HandleBeforeUnload_idle(sa, st, nowMs) == << >>

\* handleBeforeUnload: if (sessionActive) endSession()
HandleBeforeUnload(sa, st, nowMs) ==
  IF sa THEN HookEndSession(sa, st, nowMs) ELSE << >>

\* the browser dispatches beforeunload and then discards the page
PageUnload ==
  /\ ~unloaded
  /\ unloaded' = TRUE
  /\ LET h == HandleBeforeUnload(sessionActive, sessionStartTime, NowMs)
     IN Obs("beforeunload", websocket, h, Transmit(readyState, websocket, h), FALSE)
  /\ UNCHANGED <<apiVars, hookVars, envVars, explicitDown, sessionConn, userChanges, altVars>>
  /\ UNCHANGED <<altCacheVars, nebVars, editorVars, authVars, backoffVars>>

\* the frames that only concern the connection flag and the error channel
ConnInbound == {d \in Inbound : d.type \in {"connected", "error"}}

\* the frames of the session protocol
SessionInbound ==
  {d \in Inbound : d.type \in {"connected", "session_started", "session_ended",
                              "analysis_result", "achievement_unlocked"}}

\* connection manager and connect effect, under every interleaving of socket
\* events, timers and userId changes
Next ==
  \/ \E u \in Users \cup {NoUser} : SetUserId(u)
  \/ \E s \in 1..MaxSockets : SocketOpen(s)
  \/ \E s \in 1..MaxSockets : \E d \in ConnInbound : SocketMessage(s, d)
  \/ \E s \in 1..MaxSockets : SocketFail(s)
  \/ \E s \in 1..MaxSockets : SocketClose(s)
  \/ \E t \in BagToSet(reconnectTimers) : ReconnectTimerFire(t)
  \/ HeartbeatTimerFire

Spec == Init /\ [][Next]_vars

\* the connect effect when the userId prop changes from A to B once, under
\* every interleaving of the socket events and the reconnect timers
NextSwitch ==
  \/ SetUserId("A") /\ userChanges = 0
  \/ SetUserId("B") /\ hookUser = "A"
  \/ \E s \in 1..MaxSwitchSockets : SocketOpen(s)
  \/ \E s \in 1..MaxSwitchSockets : SocketFail(s)
  \/ \E s \in 1..MaxSwitchSockets : SocketClose(s)
  \/ \E t \in BagToSet(reconnectTimers) :
        ReconnectTimerFire(t) /\ Len(readyState') <= MaxSwitchSockets
  \/ HeartbeatTimerFire

SpecSwitch == Init /\ [][NextSwitch]_vars

\* session tracker of the primary hook: the component mounts once with a fixed
\* userId (as AnalyzerPanel and PersonalPlanetEvolution do) and may unmount
NextSession ==
  \/ SetUserId("A") /\ userChanges = 0
  \/ SetUserId(NoUser)
  \/ \E s \in 1..MaxSessionSockets : SocketOpen(s)
  \/ \E s \in 1..MaxSessionSockets : \E d \in SessionInbound :
        /\ d.type = "analysis_result" => analysisCount < MaxAnalyses
        /\ d.type = "achievement_unlocked" => achSeq < MaxAch
        /\ SocketMessage(s, d)
  \/ \E s \in 1..MaxSessionSockets : SocketMalformed(s)
  \/ \E s \in 1..MaxSessionSockets : SocketFail(s)
  \/ \E s \in 1..MaxSessionSockets : SocketClose(s)
  \/ \E t \in BagToSet(reconnectTimers) :
        ReconnectTimerFire(t) /\ Len(readyState') <= MaxSessionSockets
  \/ HeartbeatTimerFire
  \/ StartSession
  \/ EndSession
  \/ SendCodeAnalysis
  \/ ClearAchievements
  \/ Tick

SpecSession == Init /\ [][NextSession]_vars

\* the frames that start and end a session
TeardownInbound ==
  {d \in Inbound : d.type \in {"connected", "session_started", "session_ended"}}

\* the session tracker up to the moment the page is discarded: nothing runs
\* after beforeunload
NextTeardown ==
  \/ ~unloaded /\ SetUserId("A") /\ userChanges = 0
  \/ \E s \in 1..MaxSessionSockets : ~unloaded /\ SocketOpen(s)
  \/ \E s \in 1..MaxSessionSockets : \E d \in TeardownInbound : ~unloaded /\ SocketMessage(s, d)
  \/ \E s \in 1..MaxSessionSockets : ~unloaded /\ SocketFail(s)
  \/ \E s \in 1..MaxSessionSockets : ~unloaded /\ SocketClose(s)
  \/ \E t \in BagToSet(reconnectTimers) :
        ~unloaded /\ ReconnectTimerFire(t) /\ Len(readyState') <= MaxSessionSockets
  \/ ~unloaded /\ StartSession
  \/ ~unloaded /\ EndSession
  \/ ~unloaded /\ Tick
  \/ PageUnload

SpecTeardown == Init /\ [][NextTeardown]_vars


\* ------------------------------------------- alternate hook (useAuth.tsx)
\* connectWebSocket of the alternate hook: always a new WebSocket
AltConnect(rs) == [rs |-> Append(rs, "CONNECTING"), ws |-> Len(rs) + 1]

\* cleanup of the effect: close wsRef.current, clearTimeout(reconnectTimeoutRef.current)
AltCleanup(rs, ws) ==
  IF ws # NoSocket THEN [rs EXCEPT ![ws] = WsClose(rs[ws])] ELSE rs

\* onclose: setIsConnected(false); reconnectTimeoutRef.current = setTimeout(connectWebSocket, 3000)
AltOnClose(timers) == timers + 1

\* a fetch() the hook has issued
Req(op, m) == [op |-> op, metrics |-> m]

\* fetchSessionStats: GET /api/user/{userId}/stats
FetchSessionStats(http) == http (+) SetToBag({Req("stats", NoMetrics)})

\* the effect runs for the first time
AltMount ==
  /\ altMounted = "init"
  /\ LET c == AltConnect(altReady)
     IN /\ altReady' = c.rs
        /\ altWsRef' = c.ws
  /\ altOrigin' = Append(altOrigin, "effect")
  /\ altMounted' = "mounted"
  /\ altLast' = "mount"
  /\ UNCHANGED <<altIsConnected, altTimers, altRefPending, altFailed>>
  /\ UNCHANGED <<apiVars, hookVars, envVars, obsVars, extVars>>

\* userId changed: cleanup, then the effect again
AltRerun ==
  /\ altMounted = "mounted"
  /\ Len(altReady) < MaxAltSockets
  /\ LET c == AltConnect(AltCleanup(altReady, altWsRef))
     IN /\ altReady' = c.rs
        /\ altWsRef' = c.ws
  /\ altOrigin' = Append(altOrigin, "effect")
  /\ altTimers' = IF altRefPending THEN altTimers - 1 ELSE altTimers
  /\ altRefPending' = FALSE
  /\ altLast' = "rerun"
  /\ UNCHANGED <<altIsConnected, altMounted, altFailed>>
  /\ UNCHANGED <<apiVars, hookVars, envVars, obsVars, extVars>>

\* the component unmounts: cleanup only
AltUnmount ==
  /\ altMounted = "mounted"
  /\ altReady' = AltCleanup(altReady, altWsRef)
  /\ altTimers' = IF altRefPending THEN altTimers - 1 ELSE altTimers
  /\ altRefPending' = FALSE
  /\ altMounted' = "unmounted"
  /\ altLast' = "unmount"
  /\ UNCHANGED <<altWsRef, altIsConnected, altFailed, altOrigin>>
  /\ UNCHANGED <<apiVars, hookVars, envVars, obsVars, extVars>>

\* wsRef.current.onopen
AltSocketOpen(s) ==
  /\ s \in DOMAIN altReady
  /\ altReady[s] = "CONNECTING"
  /\ altReady' = [altReady EXCEPT ![s] = "OPEN"]
  /\ altIsConnected' = TRUE
  /\ altFailed' = 0
  /\ altLast' = "open"
  /\ altHttp' = FetchSessionStats(altHttp)
  /\ UNCHANGED <<altWsRef, altTimers, altRefPending, altMounted, altOrigin>>
  /\ UNCHANGED <<altSessionActive, altStats, altLatest, altAchievements, altArrived>>
  /\ UNCHANGED <<apiVars, hookVars, envVars, obsVars, pageVars, authVars, backoffVars, nebVars, editorVars>>

\* the connection fails (onerror, then onclose) or closes (onclose)
AltSocketClose(s) ==
  /\ s \in DOMAIN altReady
  /\ altReady[s] \in {"CONNECTING", "OPEN", "CLOSING"}
  /\ altReady' = [altReady EXCEPT ![s] = "CLOSED"]
  /\ altIsConnected' = FALSE
  /\ altTimers' = AltOnClose(altTimers)
  /\ altRefPending' = TRUE
  /\ altFailed' = IF altReady[s] = "CONNECTING" /\ altOrigin[s] = "timer"
                  THEN altFailed + 1 ELSE altFailed
  /\ altLast' = "close"
  /\ UNCHANGED <<altWsRef, altMounted, altOrigin>>
  /\ UNCHANGED <<apiVars, hookVars, envVars, obsVars, extVars>>

\* a 3 s reconnect timer fires: connectWebSocket(); held says whether it is the
\* timer reconnectTimeoutRef still holds or one the ref no longer holds
AltTimerFire(held) ==
  /\ IF held THEN altRefPending ELSE altTimers > (IF altRefPending THEN 1 ELSE 0)
  /\ Len(altReady) < MaxAltSockets
  /\ altTimers' = altTimers - 1
  /\ altRefPending' = IF held THEN FALSE ELSE altRefPending
  /\ LET c == AltConnect(altReady)
     IN /\ altReady' = c.rs
        /\ altWsRef' = c.ws
  /\ altOrigin' = Append(altOrigin, "timer")
  /\ altLast' = "timer"
  /\ UNCHANGED <<altIsConnected, altMounted, altFailed>>
  /\ UNCHANGED <<apiVars, hookVars, envVars, obsVars, extVars>>

\* setRecentAchievements(prev => [data.data, ...prev.slice(0, 4)])
AltPushAchievement(prev, a) ==
  << a >> \o SubSeq(prev, 1, IF Len(prev) < AltKeepAchievements THEN Len(prev)
                              ELSE AltKeepAchievements)

\* analyses the backend reports
ServerAnalyses ==
  {[evolution_points |-> 40, complexity_score |-> 4 * Centi, style_feedback |-> "server",
    suggestions |-> << >>],
   [evolution_points |-> 90, complexity_score |-> 9 * Centi, style_feedback |-> "server",
    suggestions |-> << >>]}

\* the frames the server may send to the alternate hook
AltAnalysisFrames == [type : {"analysis_result"}, val : ServerAnalyses]

AltAchievementFrames == [type : {"achievement"}, val : {achSeq + 1}]

AltOtherFrames == [type : {"session_stats", "other"}, val : {"frame"}]

\* wsRef.current.onmessage with a frame that parses
AltSocketMessage(s, d) ==
  /\ s \in DOMAIN altReady
  /\ altReady[s] = "OPEN"
  /\ altLatest' = IF d.type = "analysis_result" THEN << d.val >> ELSE altLatest
  /\ altAchievements' = IF d.type = "achievement"
                        THEN AltPushAchievement(altAchievements, d.val)
                        ELSE altAchievements
  /\ achSeq' = IF d.type = "achievement" THEN achSeq + 1 ELSE achSeq
  /\ altStats' = IF d.type = "session_stats" THEN d.val ELSE altStats
  /\ altLast' = "message:" \o d.type
  /\ altArrived' = d
  /\ UNCHANGED <<altReady, altWsRef, altIsConnected, altTimers, altRefPending, altMounted,
                 altFailed, altOrigin, altSessionActive, altHttp>>
  /\ UNCHANGED <<apiVars, hookVars, now, obsVars, pageVars, authVars, backoffVars, nebVars, editorVars>>

\* wsRef.current.onmessage with a frame JSON.parse rejects: caught and logged
AltSocketMalformed(s) ==
  /\ s \in DOMAIN altReady
  /\ altReady[s] = "OPEN"
  /\ altLast' = "malformed"
  /\ UNCHANGED <<altReady, altWsRef, altIsConnected, altTimers, altRefPending, altMounted,
                 altFailed, altOrigin>>
  /\ UNCHANGED <<apiVars, hookVars, envVars, obsVars, extVars>>

NextAlt ==
  \/ AltMount
  \/ AltRerun
  \/ AltUnmount
  \/ \E s \in 1..MaxAltSockets : AltSocketOpen(s)
  \/ \E s \in 1..MaxAltSockets : AltSocketClose(s)
  \/ \E held \in BOOLEAN : AltTimerFire(held)

SpecAlt == Init /\ [][NextAlt]_vars

\* the achievement frames
BufferInbound == {d \in Inbound : d.type \in {"connected", "achievement_unlocked"}}

\* the achievement buffer of whichever hook the page mounts, under a stream of
\* achievement frames
NextBuffer ==
  \/ SetUserId("A") /\ userChanges = 0 /\ altMounted = "init"
  \/ \E s \in 1..MaxSessionSockets : SocketOpen(s)
  \/ \E s \in 1..MaxSessionSockets : \E d \in BufferInbound :
        /\ d.type = "achievement_unlocked" => achSeq < MaxArrivals
        /\ SocketMessage(s, d)
  \/ \E s \in 1..MaxSessionSockets : SocketClose(s)
  \/ \E t \in BagToSet(reconnectTimers) :
        ReconnectTimerFire(t) /\ Len(readyState') <= MaxSessionSockets
  \/ AltMount /\ hookUser = NoUser
  \/ \E s \in 1..MaxSessionSockets : AltSocketOpen(s)
  \/ \E s \in 1..MaxSessionSockets : \E d \in AltAchievementFrames :
        achSeq < MaxArrivals /\ AltSocketMessage(s, d)
  \/ \E s \in 1..MaxSessionSockets : AltSocketClose(s)
  \/ \E held \in BOOLEAN : AltTimerFire(held) /\ Len(altReady') <= MaxSessionSockets

SpecBuffer == Init /\ [][NextBuffer]_vars


\* the inbound stream of whichever hook the page mounts: every frame type the
\* server may send, frames that do not parse, and the socket events
NextFrames ==
  \/ SetUserId("A") /\ userChanges = 0 /\ altMounted = "init"
  \/ \E s \in 1..MaxSessionSockets : SocketOpen(s)
  \/ \E s \in 1..MaxSessionSockets : \E d \in Inbound :
        /\ d.type = "analysis_result" => analysisCount < MaxAnalyses
        /\ d.type = "achievement_unlocked" => achSeq < MaxAch
        /\ SocketMessage(s, d)
  \/ \E s \in 1..MaxSessionSockets : SocketMalformed(s)
  \/ \E s \in 1..MaxSessionSockets : SocketFail(s)
  \/ \E s \in 1..MaxSessionSockets : SocketClose(s)
  \/ \E t \in BagToSet(reconnectTimers) :
        ReconnectTimerFire(t) /\ Len(readyState') <= MaxSessionSockets
  \/ AltMount /\ hookUser = NoUser
  \/ \E s \in 1..MaxSessionSockets : AltSocketOpen(s)
  \/ \E s \in 1..MaxSessionSockets :
        \E d \in AltAnalysisFrames \cup AltAchievementFrames \cup AltOtherFrames :
          /\ d.type = "achievement" => achSeq < MaxAch
          /\ AltSocketMessage(s, d)
  \/ \E s \in 1..MaxSessionSockets : AltSocketMalformed(s)
  \/ \E s \in 1..MaxSessionSockets : AltSocketClose(s)
  \/ \E held \in BOOLEAN : AltTimerFire(held) /\ Len(altReady') <= MaxSessionSockets

SpecFrames == Init /\ [][NextFrames]_vars


\* ------------------------------------------- page of AlgoNebulaContent
\* sendCodeAnalysis of the page's hook, with the isConnected of the render that
\* created it: a fetch to the backend, or the local analysis at once
NebulaSend(conn, metrics, codeText) ==
  IF conn /\ ~Blank(codeText)
  THEN [fetches |-> nebFetches (+) SetToBag({[code |-> codeText, metrics |-> metrics]}),
        latest |-> nebLatest,
        source |-> nebSource]
  ELSE [fetches |-> nebFetches,
        latest |-> PerformLocalAnalysis(codeText, metrics),
        source |-> [path |-> "local", code |-> codeText, metrics |-> metrics, data |-> NoData]]

\* the page mounts: the hook's effect tests the backend (GET /health) and the
\* page's analysis effect runs for the initial code "", which resets the cache
NebMount ==
  /\ nebHealth = "init"
  /\ nebHealth' = "pending"
  /\ LET r == NebulaSend(nebConnected, ResetMetrics, code)
     IN /\ nebFetches' = r.fetches
        /\ nebLatest' = r.latest
        /\ nebSource' = r.source
  /\ issued' = << [origin |-> "reset", code |-> code, metrics |-> ResetMetrics] >>
  /\ Obs("nebula:mount", NoSocket, << >>, << >>, FALSE)
  /\ UNCHANGED <<nebConnected, nebSessionActive>>
  /\ UNCHANGED <<code, selectedChallenge, sessionStarted, analysisTimers, feedbackTimers,
                 lastChange, burstRequests, burstChanges, callArgs>>
  /\ UNCHANGED <<apiVars, hookVars, envVars, explicitDown, sessionConn, userChanges,
                 altVars, altCacheVars, pageVars, authVars, backoffVars>>

\* the health check settles: ok sets isConnected, a rejected fetch clears it
NebHealthSettles(outcome) ==
  /\ nebHealth = "pending"
  /\ nebHealth' = "done"
  /\ nebConnected' = CASE outcome = "ok" -> TRUE
                       [] outcome = "reject" -> FALSE
                       [] OTHER -> nebConnected
  /\ issued' = << >>
  /\ Obs("nebula:health", NoSocket, << >>, << >>, FALSE)
  /\ UNCHANGED <<nebSessionActive, nebLatest, nebFetches, nebSource>>
  /\ UNCHANGED <<code, selectedChallenge, sessionStarted, analysisTimers, feedbackTimers,
                 lastChange, burstRequests, burstChanges, callArgs>>
  /\ UNCHANGED <<apiVars, hookVars, envVars, explicitDown, sessionConn, userChanges,
                 altVars, altCacheVars, pageVars, authVars, backoffVars>>

\* startSession / endSession of the page's hook: setSessionActive(b)
NebSetSession(b) ==
  /\ nebHealth # "init"
  /\ nebSessionActive' = b
  /\ issued' = << >>
  /\ Obs(IF b THEN "nebula:startSession" ELSE "nebula:endSession", NoSocket, << >>, << >>, FALSE)
  /\ UNCHANGED <<nebHealth, nebConnected, nebLatest, nebFetches, nebSource>>
  /\ UNCHANGED <<code, selectedChallenge, sessionStarted, analysisTimers, feedbackTimers,
                 lastChange, burstRequests, burstChanges, callArgs>>
  /\ UNCHANGED <<apiVars, hookVars, envVars, explicitDown, sessionConn, userChanges,
                 altVars, altCacheVars, pageVars, authVars, backoffVars>>

\* a caller invokes sendCodeAnalysis(metrics, codeText) of the current render
NebSendCodeAnalysis(metrics, codeText) ==
  /\ nebHealth # "init"
  /\ LET r == NebulaSend(nebConnected, metrics, codeText)
     IN /\ nebFetches' = r.fetches
        /\ nebLatest' = r.latest
        /\ nebSource' = r.source
  /\ issued' = << [origin |-> "call", code |-> codeText, metrics |-> metrics] >>
  /\ Obs("nebula:sendCodeAnalysis", NoSocket, << >>, << >>, FALSE)
  /\ UNCHANGED <<nebHealth, nebConnected, nebSessionActive>>
  /\ UNCHANGED <<code, selectedChallenge, sessionStarted, analysisTimers, feedbackTimers,
                 lastChange, burstRequests, burstChanges, callArgs>>
  /\ UNCHANGED <<apiVars, hookVars, envVars, explicitDown, sessionConn, userChanges,
                 altVars, altCacheVars, pageVars, authVars, backoffVars>>

\* the fetch of sendCodeAnalysis settles: an ok response is transformed into the
\* cache; a response that is not ok, or a rejected fetch, falls back to the
\* local analysis of the text the request was made for
NebFetchSettles(req, outcome, analysisData) ==
  /\ BagIn(req, nebFetches)
  /\ nebFetches' = nebFetches (-) SetToBag({req})
  /\ nebLatest' = IF outcome = "ok"
                  THEN TransformBackend(analysisData, req.code, req.metrics)
                  ELSE PerformLocalAnalysis(req.code, req.metrics)
  /\ nebSource' = [path |-> IF outcome = "ok" THEN "backend" ELSE "local",
                   code |-> req.code, metrics |-> req.metrics,
                   data |-> IF outcome = "ok" THEN analysisData ELSE NoData]
  /\ issued' = << >>
  /\ Obs("nebula:response:" \o outcome, NoSocket, << >>, << >>, FALSE)
  /\ UNCHANGED <<nebHealth, nebConnected, nebSessionActive>>
  /\ UNCHANGED <<code, selectedChallenge, sessionStarted, analysisTimers, feedbackTimers,
                 lastChange, burstRequests, burstChanges, callArgs>>
  /\ UNCHANGED <<apiVars, hookVars, envVars, explicitDown, sessionConn, userChanges,
                 altVars, altCacheVars, pageVars, authVars, backoffVars>>

\* the feature words, one per flag
FeatureWords == << Kw.function, Kw.slashes, Kw.for, Kw.try, Kw.async >>

RECURSIVE WordsOf(_, _)
WordsOf(S, i) ==
  IF i > Len(FeatureWords) THEN << >>
  ELSE (IF i \in S THEN FeatureWords[i] ELSE << >>) \o WordsOf(S, i + 1)

\* sixty characters with a structural and a comment feature only
Example60 == Kw.function \o Kw.slashes \o Filler(50)

\* code texts: every combination of features at three lengths, every keyword
\* on its own, words that hold a keyword inside, blank text
CodeInputs ==
  {WordsOf(S, 1) \o Filler(p) : S \in SUBSET (1..5), p \in {0, 40, 150}}
  \cup {Kw.function, Kw.def, Kw.arrow, Kw.class, Kw.slashes, Kw.hash, Kw.slashstar,
        Kw.for, Kw.while, Kw.map, Kw.reduce, Kw.try, Kw.catch, Kw.except,
        Kw.async, Kw.await, Kw.Promise}
  \cup {W_before, W_return, W_space, W_newline, Example60, ChallengeTemplate}

\* metrics a caller may pass
MetricsInputs ==
  {ResetMetrics, [lines |-> 3, functions |-> 1, comments |-> 2, complexity |-> 10 * Centi]}

\* the hook of the page while the backend cannot be reached, called with any
\* code text and metrics
NextLocal ==
  \/ NebMount
  \/ NebHealthSettles("reject")
  \/ NebHealthSettles("notok")
  \/ \E b \in BOOLEAN : NebSetSession(b)
  \/ NebSendCodeAnalysis(callArgs.metrics, callArgs.code)

\* the caller's arguments range over the code texts and the metrics
InitLocal == \E c \in CodeInputs : \E m \in MetricsInputs : InitArgs(c, m)

SpecLocal == InitLocal /\ [][NextLocal]_vars


\* ------------------------------------------------------------ editor pages
Minimum(S) == CHOOSE x \in S : \A y \in S : x <= y

\* the regular expression class \w
WordChars ==
  {"a", "b", "c", "d", "e", "f", "g", "h", "i", "j", "k", "l", "m", "n", "o", "p", "q",
   "r", "s", "t", "u", "v", "w", "x", "y", "z", "A", "B", "C", "D", "E", "F", "G", "H",
   "I", "J", "K", "L", "M", "N", "O", "P", "Q", "R", "S", "T", "U", "V", "W", "X", "Y",
   "Z", "0", "1", "2", "3", "4", "5", "6", "7", "8", "9", "_"}

\* the literal kw matches text at position i
MatchAt(text, i, kw) ==
  /\ i + Len(kw) - 1 <= Len(text)
  /\ text[i] = kw[1]
  /\ SubSeq(text, i, i + Len(kw) - 1) = kw

\* the number of consecutive characters of class from position i on
Span(text, i, class) ==
  LET stops == {j \in i..Len(text) : text[j] \notin class}
  IN IF stops = {} THEN Len(text) - i + 1 ELSE Minimum(stops) - i

\* the length of the match of /const \w+\s*=/ at position i, or 0
ConstMatch(text, i) ==
  IF ~MatchAt(text, i, Kw.const) THEN 0
  ELSE LET w == Span(text, i + Len(Kw.const), WordChars)
           e == i + Len(Kw.const) + w + Span(text, i + Len(Kw.const) + w, Whitespace)
       IN IF w > 0 /\ e <= Len(text) /\ text[e] = "=" THEN e - i + 1 ELSE 0

\* the length of the match at position i of /function|def |const \w+\s*=|class /
\* (kind "functions") or of /\/\/|\/\*|\*\/|#/ (kind "comments"), or 0
MatchLen(kind, text, i) ==
  IF kind = "functions"
  THEN CASE MatchAt(text, i, Kw.function) -> Len(Kw.function)
         [] MatchAt(text, i, Kw.def) -> Len(Kw.def)
         [] ConstMatch(text, i) > 0 -> ConstMatch(text, i)
         [] MatchAt(text, i, Kw.class) -> Len(Kw.class)
         [] OTHER -> 0
  ELSE CASE MatchAt(text, i, Kw.slashes) -> Len(Kw.slashes)
         [] MatchAt(text, i, Kw.slashstar) -> Len(Kw.slashstar)
         [] MatchAt(text, i, Kw.starslash) -> Len(Kw.starslash)
         [] MatchAt(text, i, Kw.hash) -> Len(Kw.hash)
         [] OTHER -> 0

RECURSIVE CountMatches(_, _, _)
\* (code.match(/.../g) || []).length: the matches from position i on, taken
\* left to right without overlap
CountMatches(kind, text, i) ==
  LET starts == {j \in i..Len(text) : MatchLen(kind, text, j) > 0}
  IN IF starts = {} THEN 0
     ELSE 1 + CountMatches(kind, text, Minimum(starts) + MatchLen(kind, text, Minimum(starts)))

\* the metrics analyzeCode computes; complexity is Math.min(10, Math.max(1,
\* code.length / perPoint)) in hundredths
AnalyzeMetrics(c, perPoint) ==
  [lines |-> Cardinality({i \in 1..Len(c) : c[i] = "\n"}) + 1,
   functions |-> CountMatches("functions", c, 1),
   comments |-> CountMatches("comments", c, 1),
   complexity |-> Min(10 * Centi, Max(1 * Centi, (Len(c) * Centi) \div perPoint))]

\* a program long enough for a four-digit length
LongProgram == ChallengeTemplate \o Filler(LongPad)

\* the texts the user may leave in the editor
PageTexts == {<< >>, W_space, W_return}

\* a code change begins a new burst when the previous change is at least the
\* debounce delay old
NewBurst(delay) == lastChange = Null \/ NowMs - lastChange[1] >= delay

\* bookkeeping of a code change
TrackChange(delay) ==
  /\ lastChange' = << NowMs >>
  /\ burstRequests' = IF NewBurst(delay) THEN 0 ELSE burstRequests
  /\ burstChanges' = IF NewBurst(delay) THEN 1 ELSE Min(2, burstChanges + 1)

\* the analysis effect of AlgoNebulaContent after code became c: the cleanup of
\* the previous run, then a 100 ms timer for text that is not blank, or the
\* reset analysis at once for the empty text
NebAnalysisEffect(c) ==
  /\ analysisTimers' =
       CancelPending(analysisTimers)
         \cup (IF ~Blank(c)
               THEN {[due |-> NowMs + AnalysisDelay, code |-> c, conn |-> nebConnected,
                      cause |-> "code"]}
               ELSE {})
  /\ IF Len(c) = 0
     THEN LET r == NebulaSend(nebConnected, ResetMetrics, c)
          IN /\ nebFetches' = r.fetches
             /\ nebLatest' = r.latest
             /\ nebSource' = r.source
             /\ issued' = << [origin |-> "reset", code |-> c, metrics |-> ResetMetrics] >>
     ELSE /\ UNCHANGED <<nebFetches, nebLatest, nebSource>>
          /\ issued' = << >>
  /\ TrackChange(AnalysisDelay)

\* the user edits the code: setCode(c)
NebSetCode(c) ==
  /\ nebHealth # "init"
  /\ c # code
  /\ code' = c
  /\ NebAnalysisEffect(c)
  /\ Obs("nebula:setCode", NoSocket, << >>, << >>, FALSE)
  /\ UNCHANGED <<nebHealth, nebConnected, nebSessionActive>>
  /\ UNCHANGED <<selectedChallenge, sessionStarted, feedbackTimers, callArgs>>
  /\ UNCHANGED <<apiVars, hookVars, envVars, explicitDown, sessionConn, userChanges,
                 altVars, altCacheVars, pageVars, authVars, backoffVars>>

\* selectChallenge: the challenge's template becomes the code
NebSelectChallenge ==
  /\ nebHealth # "init"
  /\ selectedChallenge' = TRUE
  /\ sessionStarted' = FALSE
  /\ code' = ChallengeTemplate
  /\ IF code # ChallengeTemplate
     THEN NebAnalysisEffect(ChallengeTemplate)
     ELSE /\ issued' = << >>
          /\ UNCHANGED <<analysisTimers, nebFetches, nebLatest, nebSource, lastChange,
                         burstRequests, burstChanges>>
  /\ Obs("nebula:selectChallenge", NoSocket, << >>, << >>, FALSE)
  /\ UNCHANGED <<nebHealth, nebConnected, nebSessionActive>>
  /\ UNCHANGED <<feedbackTimers, callArgs>>
  /\ UNCHANGED <<apiVars, hookVars, envVars, explicitDown, sessionConn, userChanges,
                 altVars, altCacheVars, pageVars, authVars, backoffVars>>

\* the debounce timer fires: analyzeCode() of the render that armed it
NebAnalysisTimerFire(t) ==
  /\ t \in analysisTimers
  /\ NowMs >= t.due
  /\ analysisTimers' = analysisTimers \ {t}
  /\ IF Blank(t.code)
     THEN /\ issued' = << >>
          /\ UNCHANGED <<nebFetches, nebLatest, nebSource, burstRequests>>
     ELSE LET m == AnalyzeMetrics(t.code, 50)
              r == NebulaSend(t.conn, m, t.code)
          IN /\ nebFetches' = r.fetches
             /\ nebLatest' = r.latest
             /\ nebSource' = r.source
             /\ issued' = << [origin |-> "analyze", code |-> t.code, metrics |-> m] >>
             /\ burstRequests' = burstRequests + 1
  /\ Obs("nebula:analysisTimer", NoSocket, << >>, << >>, FALSE)
  /\ UNCHANGED <<nebHealth, nebConnected, nebSessionActive>>
  /\ UNCHANGED <<code, selectedChallenge, sessionStarted, feedbackTimers, lastChange,
                 burstChanges, callArgs>>
  /\ UNCHANGED <<apiVars, hookVars, envVars, explicitDown, sessionConn, userChanges,
                 altVars, altCacheVars, pageVars, authVars, backoffVars>>

\* the user edits the code of PersonalPlanetEvolution.backup: setCode(c)
BackupSetCode(c) ==
  /\ hookUser # NoUser
  /\ c # code
  /\ code' = c
  /\ analysisTimers' = BackupAnalysisEffect(analysisTimers, c, sessionActive,
                                            selectedChallenge, isConnected, NowMs, "code")
  /\ TrackChange(BackupAnalysisDelay)
  /\ issued' = << >>
  /\ Obs("backup:setCode", NoSocket, << >>, << >>, FALSE)
  /\ UNCHANGED <<selectedChallenge, sessionStarted, feedbackTimers, callArgs>>
  /\ UNCHANGED <<apiVars, hookVars, envVars, explicitDown, sessionConn, userChanges,
                 altVars, altCacheVars, pageVars, authVars, backoffVars, nebVars>>

\* selectChallenge of the backup page: the code is cleared
BackupSelectChallenge ==
  /\ hookUser # NoUser
  /\ selectedChallenge' = TRUE
  /\ sessionStarted' = FALSE
  /\ code' = << >>
  /\ analysisTimers' = IF code # << >>
                       THEN BackupAnalysisEffect(analysisTimers, << >>, sessionActive, TRUE,
                                                 isConnected, NowMs, "code")
                       ELSE analysisTimers
  /\ IF code # << >> THEN TrackChange(BackupAnalysisDelay)
     ELSE UNCHANGED <<lastChange, burstRequests, burstChanges>>
  /\ issued' = << >>
  /\ Obs("backup:selectChallenge", NoSocket, << >>, << >>, FALSE)
  /\ UNCHANGED <<feedbackTimers, callArgs>>
  /\ UNCHANGED <<apiVars, hookVars, envVars, explicitDown, sessionConn, userChanges,
                 altVars, altCacheVars, pageVars, authVars, backoffVars, nebVars>>

\* the debounce timer of the backup page fires: analyzeCode() of the render
\* that armed it, which hands the metrics to the primary hook
BackupAnalysisTimerFire(t) ==
  /\ hookUser # NoUser
  /\ t \in analysisTimers
  /\ NowMs >= t.due
  /\ analysisTimers' = analysisTimers \ {t}
  /\ LET h == IF Blank(t.code) THEN << >> ELSE HookSendCodeAnalysis(t.conn)
     IN Obs("backup:analysisTimer", websocket, h, Transmit(readyState, websocket, h), FALSE)
  /\ issued' = IF Blank(t.code) THEN << >>
               ELSE << [origin |-> "analyze", code |-> t.code,
                        metrics |-> AnalyzeMetrics(t.code, 100)] >>
  /\ burstRequests' = IF Blank(t.code) \/ t.cause # "code" THEN burstRequests
                      ELSE burstRequests + 1
  /\ UNCHANGED <<code, selectedChallenge, sessionStarted, feedbackTimers, lastChange,
                 burstChanges, callArgs>>
  /\ UNCHANGED <<apiVars, hookVars, envVars, explicitDown, sessionConn, userChanges,
                 altVars, altCacheVars, pageVars, authVars, backoffVars, nebVars>>

\* ---------------------------------- alternate hook: session and analysis
RECURSIVE JoinTags(_)
\* feedbacks.join(', ')
JoinTags(tags) ==
  IF Len(tags) = 1 THEN tags[1] ELSE tags[1] \o ", " \o JoinTags(Tail(tags))

\* generateMockFeedback(metrics)
GenerateMockFeedback(metrics) ==
  LET feedbacks == (IF metrics.comments > 0 THEN << "clean" >> ELSE << >>)
                   \o (IF metrics.functions > 0 THEN << "structured" >> ELSE << >>)
                   \o (IF metrics.complexity < 5 * Centi THEN << "readable" >> ELSE << >>)
                   \o (IF metrics.lines < 20 THEN << "concise" >> ELSE << >>)
  IN IF Len(feedbacks) > 0 THEN JoinTags(feedbacks) ELSE "good effort"

\* the extremes of Math.floor(Math.random() * 20)
MockRandom == {0, 19}

\* "Mock analysis for demo purposes"
MockAnalysis(metrics, rnd) ==
  [evolution_points |-> rnd + 5,
   complexity_score |-> Min(10 * Centi, Max(1 * Centi, metrics.complexity)),
   style_feedback |-> GenerateMockFeedback(metrics),
   suggestions |-> << "Consider adding more comments for clarity",
                      "Good function structure detected",
                      "Try to reduce cyclomatic complexity" >>]

\* metrics a caller of the alternate hook may pass
AltMetricsInputs ==
  {[lines |-> 3, functions |-> 1, comments |-> 2, complexity |-> 12 * Centi],
   [lines |-> 30, functions |-> 0, comments |-> 0, complexity |-> 0]}

\* the component calls startSession(config) or endSession(): a POST
AltSessionRequest(op) ==
  /\ altMounted = "mounted"
  /\ altHttp' = altHttp (+) SetToBag({Req(op, NoMetrics)})
  /\ altLast' = op
  /\ UNCHANGED <<altReady, altWsRef, altIsConnected, altTimers, altRefPending, altMounted,
                 altFailed, altOrigin>>
  /\ UNCHANGED <<altSessionActive, altStats, altLatest, altAchievements, altArrived>>
  /\ UNCHANGED <<apiVars, hookVars, envVars, obsVars, pageVars, authVars, backoffVars, nebVars, editorVars>>

\* the component calls sendCodeAnalysis(metrics): nothing without a session, a
\* frame on the open socket, or the HTTP fallback
AltSendCodeAnalysis(metrics) ==
  /\ altMounted = "mounted"
  /\ altHttp' = IF altSessionActive /\ ~IsOpen(altReady, altWsRef)
                THEN altHttp (+) SetToBag({Req("analyze", metrics)})
                ELSE altHttp
  /\ altLast' = CASE ~altSessionActive -> "sendCodeAnalysis:dropped"
                  [] IsOpen(altReady, altWsRef) -> "sendCodeAnalysis:socket"
                  [] OTHER -> "sendCodeAnalysis:http"
  /\ UNCHANGED <<altReady, altWsRef, altIsConnected, altTimers, altRefPending, altMounted,
                 altFailed, altOrigin>>
  /\ UNCHANGED <<altSessionActive, altStats, altLatest, altAchievements, altArrived>>
  /\ UNCHANGED <<apiVars, hookVars, envVars, obsVars, pageVars, authVars, backoffVars, nebVars, editorVars>>

\* a fetch of the alternate hook settles: ok, a response that is not ok, or a
\* rejected promise (the catch blocks install demo values)
AltHttpSettles(req, outcome, analysis, rnd) ==
  /\ BagIn(req, altHttp)
  /\ altHttp' = IF req.op = "end" /\ outcome = "ok"
                THEN FetchSessionStats(altHttp (-) SetToBag({req}))
                ELSE altHttp (-) SetToBag({req})
  /\ altSessionActive' = CASE req.op = "start" /\ outcome # "notok" -> TRUE
                           [] req.op = "end" /\ outcome # "notok" -> FALSE
                           [] OTHER -> altSessionActive
  /\ altStats' = CASE req.op = "stats" /\ outcome = "ok" -> "server"
                   [] req.op = "stats" /\ outcome = "reject" -> "mock"
                   [] OTHER -> altStats
  /\ altLatest' = CASE req.op = "analyze" /\ outcome = "ok" -> << analysis >>
                    [] req.op = "analyze" /\ outcome = "reject" ->
                         << MockAnalysis(req.metrics, rnd) >>
                    [] OTHER -> altLatest
  /\ altLast' = "http:" \o req.op \o ":" \o outcome
  /\ UNCHANGED <<altReady, altWsRef, altIsConnected, altTimers, altRefPending, altMounted,
                 altFailed, altOrigin>>
  /\ UNCHANGED <<altAchievements, altArrived>>
  /\ UNCHANGED <<apiVars, hookVars, envVars, obsVars, pageVars, authVars, backoffVars, nebVars, editorVars>>

\* the frames the page's hooks receive
PageInbound ==
  {d \in Inbound : d.type \in {"connected", "session_started", "session_ended",
                               "analysis_result"}}

HttpOutcomes == {"ok", "notok", "reject"}

\* one editor page: PersonalPlanetEvolution.backup on the primary hook,
\* AlgoNebulaContent on its own hook, or a page that shows the analyses the
\* alternate hook receives
NextPages ==
  \/ SetUserId("A") /\ userChanges = 0 /\ altMounted = "init" /\ nebHealth = "init"
  \/ SocketOpen(1)
  \/ \E d \in PageInbound :
        /\ d.type = "analysis_result" => analysisCount < MaxAnalyses
        /\ SocketMessage(1, d)
  \/ BackupSelectChallenge
  \/ \E c \in PageTexts : BackupSetCode(c)
  \/ \E t \in analysisTimers : BackupAnalysisTimerFire(t)
  \/ Tick /\ (hookUser # NoUser \/ nebHealth # "init")
  \/ AltMount /\ hookUser = NoUser /\ nebHealth = "init"
  \/ AltSocketOpen(1)
  \/ \E d \in AltAnalysisFrames : AltSocketMessage(1, d)
  \/ NebMount /\ hookUser = NoUser /\ altMounted = "init"
  \/ \E outcome \in HttpOutcomes : NebHealthSettles(outcome)
  \/ NebSelectChallenge
  \/ \E c \in PageTexts : NebSetCode(c)
  \/ \E t \in analysisTimers :
        /\ nebHealth # "init"
        /\ t.conn => BagCardinality(nebFetches) < MaxFetches
        /\ NebAnalysisTimerFire(t)
  \/ \E req \in BagToSet(nebFetches) : \E outcome \in HttpOutcomes :
        \E analysisData \in BackendData : NebFetchSettles(req, outcome, analysisData)

SpecPages == Init /\ [][NextPages]_vars

\* code texts and metrics a caller of a hook may pass
CacheCodes == {<< >>, W_space, W_return, Example60, LongProgram}

CacheMetrics == {ResetMetrics} \cup AltMetricsInputs

\* the hook of AlgoNebulaContent with a backend, or the alternate hook with its
\* session and its HTTP fallback, called with any code text and metrics
NextCache ==
  \/ NebMount /\ altMounted = "init"
  \/ \E outcome \in HttpOutcomes : NebHealthSettles(outcome)
  \/ \E b \in BOOLEAN : NebSetSession(b)
  \/ NebSendCodeAnalysis(callArgs.metrics, callArgs.code)
        /\ BagCardinality(nebFetches) < MaxFetches
  \/ \E req \in BagToSet(nebFetches) : \E outcome \in HttpOutcomes :
        \E analysisData \in BackendData : NebFetchSettles(req, outcome, analysisData)
  \/ AltMount /\ nebHealth = "init"
  \/ AltSocketOpen(1)
  \/ \E d \in AltAnalysisFrames : AltSocketMessage(1, d)
  \/ \E op \in {"start", "end"} :
        AltSessionRequest(op) /\ BagCardinality(altHttp) < MaxAltHttp
  \/ AltSendCodeAnalysis(callArgs.metrics) /\ BagCardinality(altHttp) < MaxAltHttp
  \/ \E req \in BagToSet(altHttp) : \E outcome \in HttpOutcomes :
        \E analysis \in ServerAnalyses : \E rnd \in MockRandom :
           AltHttpSettles(req, outcome, analysis, rnd)

InitCache == \E c \in CacheCodes : \E m \in CacheMetrics : InitArgs(c, m)

SpecCache == InitCache /\ [][NextCache]_vars

\* every fetch settles: its promise resolves or rejects
AltFetchSettles ==
  \E req \in BagToSet(altHttp) : \E outcome \in HttpOutcomes :
    \E analysis \in ServerAnalyses : \E rnd \in MockRandom :
      AltHttpSettles(req, outcome, analysis, rnd)

NebFetchDone ==
  \E req \in BagToSet(nebFetches) : \E outcome \in HttpOutcomes :
    \E analysisData \in BackendData : NebFetchSettles(req, outcome, analysisData)

\* the hooks of SpecCache when no fetch stays pending forever
SpecCacheFair ==
  InitCache /\ [][NextCache]_vars /\ WF_vars(AltFetchSettles) /\ WF_vars(NebFetchDone)


\* ------------------------------------------- PlanetForgeAPI: authentication
\* bookkeeping of a step of an authenticated call: the token its request carries
ObsAuth(op, tok, th) ==
  /\ last' = [op |-> op, sock |-> websocket, ra |-> reconnectAttempts, val |-> tok]
  /\ handed' = << >>
  /\ emitted' = << >>
  /\ thrown' = th

\* a logout that leaves the socket alone
Logout_keepsSocket(rs, ws) ==
  [token |-> NoToken, stored |-> NoToken, conn |-> [rs |-> rs, ws |-> ws]]

\* logout(): this.token = null; localStorage.removeItem(...); disconnectWebSocket()
Logout(rs, ws) ==
  [token |-> NoToken, stored |-> NoToken, conn |-> DisconnectWebSocket(rs, ws)]

\* authenticatedRequest up to the await: throws without a token, else a fetch
\* with Authorization: Bearer token
AuthenticatedRequest(tok, reqs) ==
  IF tok = NoToken
  THEN [thrown |-> TRUE, reqs |-> reqs, sent |-> NoToken]
  ELSE [thrown |-> FALSE, reqs |-> reqs (+) SetToBag({[tok |-> tok]}), sent |-> tok]

\* login() or register() resolves: an ok response installs and stores the
\* token, any other throws
AuthLogin(outcome) ==
  /\ tokenSeq < MaxTokens
  /\ tokenSeq' = IF outcome = "ok" THEN tokenSeq + 1 ELSE tokenSeq
  /\ token' = IF outcome = "ok" THEN tokenSeq + 1 ELSE token
  /\ storedToken' = IF outcome = "ok" THEN tokenSeq + 1 ELSE storedToken
  /\ ObsAuth("auth:login:" \o outcome, NoToken, outcome # "ok")
  /\ UNCHANGED <<authRequests, revoked>>
  /\ UNCHANGED <<apiVars, hookVars, envVars, explicitDown, sessionConn, userChanges, altVars>>
  /\ UNCHANGED <<altCacheVars, pageVars, nebVars, editorVars, backoffVars>>

\* a caller (getProfile, getPlanets, ...) invokes authenticatedRequest
AuthRequest ==
  /\ LET r == AuthenticatedRequest(token, authRequests)
     IN /\ authRequests' = r.reqs
        /\ ObsAuth("auth:request", r.sent, r.thrown)
  /\ UNCHANGED <<token, storedToken, tokenSeq, revoked>>
  /\ UNCHANGED <<apiVars, hookVars, envVars, explicitDown, sessionConn, userChanges, altVars>>
  /\ UNCHANGED <<altCacheVars, pageVars, nebVars, editorVars, backoffVars>>

\* the fetch of authenticatedRequest settles: 401 logs out and throws, another
\* status that is not ok throws, a rejected fetch throws
AuthResponse(req, status) ==
  /\ BagIn(req, authRequests)
  /\ authRequests' = authRequests (-) SetToBag({req})
  /\ LET out == IF status = "401" THEN Logout(readyState, websocket)
                ELSE [token |-> token, stored |-> storedToken,
                      conn |-> [rs |-> readyState, ws |-> websocket]]
     IN /\ token' = out.token
        /\ storedToken' = out.stored
        /\ readyState' = out.conn.rs
        /\ websocket' = out.conn.ws
  /\ revoked' = IF status = "401" THEN revoked \cup {req.tok} ELSE revoked
  /\ explicitDown' = IF status = "401" THEN TRUE ELSE explicitDown
  /\ ObsAuth("auth:response:" \o status, req.tok, status # "ok")
  /\ UNCHANGED <<sockUser, reconnectAttempts, reconnectTimers, heartbeatTimers, tokenSeq>>
  /\ UNCHANGED <<hookVars, envVars, sessionConn, userChanges, altVars>>
  /\ UNCHANGED <<altCacheVars, pageVars, nebVars, editorVars, backoffVars>>

\* the user logs out
AuthLogout ==
  /\ LET out == Logout(readyState, websocket)
     IN /\ token' = out.token
        /\ storedToken' = out.stored
        /\ readyState' = out.conn.rs
        /\ websocket' = out.conn.ws
  /\ explicitDown' = TRUE
  /\ ObsAuth("auth:logout", NoToken, FALSE)
  /\ UNCHANGED <<sockUser, reconnectAttempts, reconnectTimers, heartbeatTimers, tokenSeq,
                 authRequests, revoked>>
  /\ UNCHANGED <<hookVars, envVars, sessionConn, userChanges, altVars>>
  /\ UNCHANGED <<altCacheVars, pageVars, nebVars, editorVars, backoffVars>>

ResponseStatus == {"ok", "401", "notok", "reject"}

\* the singleton with its connection, under logins, authenticated calls and
\* their responses
NextAuth ==
  \/ SetUserId("A") /\ userChanges = 0
  \/ \E s \in 1..MaxSessionSockets : SocketOpen(s)
  \/ \E s \in 1..MaxSessionSockets : SocketClose(s)
  \/ \E t \in BagToSet(reconnectTimers) :
        ReconnectTimerFire(t) /\ Len(readyState') <= MaxSessionSockets
  \/ \E outcome \in {"ok", "notok"} : AuthLogin(outcome)
  \/ AuthRequest /\ BagCardinality(authRequests) < MaxAuthRequests
  \/ \E req \in BagToSet(authRequests) : \E status \in ResponseStatus :
        AuthResponse(req, status)
  \/ AuthLogout

SpecAuth == Init /\ [][NextAuth]_vars


\* ================================================================ claims

NoHeartbeat(fs) == \A i \in 1..Len(fs) : fs[i].type # "heartbeat"

\* C1: at most one WebSocket created by the client is CONNECTING or OPEN at any
\* time (violated: connectWebSocket only returns early when the socket is OPEN).
C1_AtMostOneLive == Cardinality(Live(readyState)) <= 1

\* C2: while the client is explicitly disconnected (disconnectWebSocket ran and
\* the effect has not connected again) no step creates a socket (violated: the
\* close that disconnectWebSocket causes runs onclose -> attemptReconnect).
C2_NoReconnectAfterDisconnect ==
  [][(explicitDown /\ explicitDown') => Len(readyState') = Len(readyState)]_vars

\* C3: while the client is explicitly disconnected no heartbeat frame is
\* transmitted (violated through C2: the reconnected socket opens and onopen
\* starts the heartbeat).
C3_NoHeartbeatAfterDisconnect == explicitDown => NoHeartbeat(emitted)

\* C4: once maxReconnectAttempts consecutive reconnection attempts have failed,
\* no reconnect timer is pending and no socket is connecting (violated by the
\* alternate hook, which re-arms its 3 s timer on every close).
C4_BoundedRetry ==
  altFailed >= maxReconnectAttempts
    => (altTimers = 0 /\ \A s \in DOMAIN altReady : altReady[s] # "CONNECTING")

\* C5: in every state a socket has just opened in, reconnectAttempts is 0, and
\* 0 <= reconnectAttempts <= maxReconnectAttempts in every state.
C5_ResetOnOpen ==
  /\ last.op = "open" => reconnectAttempts = 0
  /\ reconnectAttempts \in 0..maxReconnectAttempts

\* a socket opened after at least one reconnect had been scheduled
C5_Witness == last.op = "open" /\ last.ra > 0 /\ reconnectAttempts = 0

\* C6: a step that passes a message to sendWebSocketMessage while this.websocket
\* is not OPEN transmits nothing, throws nothing and leaves the analysis cache,
\* the achievement buffer and the session statistics alone; and every frame a
\* step transmits is a message passed in that same step (nothing is queued).
C6_SendGuard ==
  [][/\ (handed' # << >> /\ ~IsOpen(readyState', websocket'))
          => /\ emitted' = << >>
             /\ ~thrown'
             /\ UNCHANGED <<latestAnalysis, recentAchievements, analysisCount,
                            sessionStartTime, sessionActive>>
     /\ \A i \in 1..Len(emitted') :
          \E j \in 1..Len(handed') : emitted'[i] = Frame(handed'[j], websocket')
    ]_vars

\* sendCodeAnalysis passed while the flag still said connected but the socket had closed
C6_Witness ==
  /\ last.op = "sendCodeAnalysis"
  /\ handed # << >>
  /\ ~IsOpen(readyState, websocket)
  /\ emitted = << >>

\* C7: startSession called while this.websocket is not OPEN throws, transmits
\* nothing and leaves sessionActive as it was (violated: onclose never clears
\* isConnected, so after a clean close by the peer startSession does not throw).
C7_StartSessionFailsFast ==
  [][(last'.op = "startSession" /\ ~IsOpen(readyState, websocket))
       => (thrown' /\ emitted' = << >> /\ sessionActive' = sessionActive)]_vars

\* C8: an active session was made active by an event delivered on a socket that
\* was OPEN at that moment.
C8_SessionStartedConnected == sessionActive => sessionConn = "OPEN"

\* a session that is still active after its connection has gone
C8_Witness == sessionActive /\ sessionConn = "OPEN" /\ ~IsOpen(readyState, websocket)

\* C9: endSession with no active session (or no start time) hands over and
\* transmits nothing and changes no state of the hook or of the connection.
C9_EndSessionNoop ==
  [][(last'.op = "endSession" /\ (~sessionActive \/ sessionStartTime = Null))
       => /\ handed' = << >>
          /\ emitted' = << >>
          /\ ~thrown'
          /\ UNCHANGED <<apiVars, hookVars>>]_vars

\* endSession called with an open connection and no session
C9_Witness ==
  /\ last.op = "endSession"
  /\ ~sessionActive
  /\ IsOpen(readyState, websocket)
  /\ emitted = << >>

C11_AutoEndOnUnload ==
  (unloaded /\ sessionActive)
    => /\ last.op = "beforeunload"
       /\ handed = << Msg("end_session", (NowMs - sessionStartTime[1]) \div 1000) >>
       /\ emitted = IF IsOpen(readyState, websocket)
                    THEN << Frame(handed[1], websocket) >> ELSE << >>

\* the page is discarded during a session that ran at least a second, and the
\* end_session frame went out on the open socket
C11_Witness ==
  /\ unloaded
  /\ sessionActive
  /\ emitted # << >>
  /\ emitted[1].type = "end_session"
  /\ emitted[1].dur >= 1

\* C19: the reported duration is derived from the session state: it is 0 while
\* no session is active and floor((now - startedAt) / 1000) while one is, and
\* sessionActive holds exactly when a start time is recorded.
C19_DerivedDuration ==
  /\ sessionActive <=> sessionStartTime # Null
  /\ ~sessionActive => sessionStats.duration = 0
  /\ sessionActive => sessionStats.duration = (now * TickMs - sessionStartTime[1]) \div 1000

\* a session that has run for a second
C19_Witness ==
  /\ sessionActive
  /\ now * TickMs - sessionStartTime[1] >= 1000
  /\ sessionStats.duration = 1

\* the n most recent of m arrivals, most recent first
MostRecent(n, m) == [i \in 1..(IF m < n THEN m ELSE n) |-> m - i + 1]

\* C12: the achievement buffer never holds more than its capacity (10 in the
\* primary hook, 5 in the alternate hook) and always holds the most recently
\* arrived achievements, most recent first, in arrival order; after more
\* arrivals than the capacity it holds exactly the capacity's worth.
C12_RingBuffer ==
  /\ Len(recentAchievements) <= 10
  /\ Len(altAchievements) <= 5
  /\ hookUser # NoUser => recentAchievements = MostRecent(10, achSeq)
  /\ altMounted # "init" => altAchievements = MostRecent(5, achSeq)

\* twelve achievements have arrived at the primary hook, whose buffer is full
\* with the ten most recent
C12_Witness ==
  /\ hookUser # NoUser
  /\ achSeq = 12
  /\ Len(recentAchievements) = 10
  /\ recentAchievements[1] = 12
  /\ recentAchievements[10] = 3

\* seven achievements have arrived at the alternate hook, whose buffer is full
\* with the five most recent
C12_WitnessAlt ==
  /\ altMounted # "init"
  /\ achSeq = 7
  /\ altAchievements = << 7, 6, 5, 4, 3 >>

\* C16: the local fallback analysis of the empty code text has evolutionPoints
\* 0, complexityScore 0 and styleFeedback "empty", whatever metrics come with it.
C16_EmptyCode ==
  (nebSource.path = "local" /\ nebSource.code = << >>)
    => /\ nebLatest.evolution_points = 0
       /\ nebLatest.complexity_score = 0
       /\ nebLatest.style_feedback = "empty"

\* sendCodeAnalysis called with the empty text and metrics of a three-line program
C16_Witness ==
  /\ last.op = "nebula:sendCodeAnalysis"
  /\ issued[1].code = << >>
  /\ issued[1].metrics.lines = 3
  /\ nebSource.path = "local"
  /\ nebLatest.style_feedback = "empty"

\* the two length tiers the claim names
C18_Tier(len) ==
  IF len < 50
  THEN [suggestion |-> "Great start! Your planet is beginning to form...",
        style |-> "embryonic", points |-> Max(1, len \div 5), complexity |-> 1]
  ELSE [suggestion |-> "Local analysis: Your code is taking shape!",
        style |-> "developing", points |-> len \div 3, complexity |-> Min(8, len \div 15)]

C18_If(flag, x) == IF flag THEN x ELSE 0

C18_Say(flag, s) == IF flag THEN << s >> ELSE << >>

\* the result the claim describes for a length, a tier and five flags
C18_Result(tier, structure, comments, loops, errors, async) ==
  [evolution_points |->
     Min(100, Max(0, tier.points + C18_If(structure, 10) + C18_If(comments, 8)
                       + C18_If(loops, 12) + C18_If(errors, 15) + C18_If(async, 10))),
   complexity_score |->
     Centi * Min(10, Max(0, tier.complexity + C18_If(structure, 2) + C18_If(comments, 1)
                              + C18_If(loops, 3) + C18_If(errors, 2) + C18_If(async, 2))),
   style_feedback |-> tier.style,
   suggestions |-> << tier.suggestion >>
                   \o C18_Say(structure, "Excellent code structure detected!")
                   \o C18_Say(comments, "Great documentation! Clean code wins!")
                   \o C18_Say(loops, "Efficient algorithms detected!")
                   \o C18_Say(errors, "Robust error handling! Well done!")
                   \o C18_Say(async, "Async patterns found! Modern coding!")]

C18_Of(codeText) ==
  C18_Result(C18_Tier(Len(codeText)), hasGoodStructure(codeText), hasComments(codeText),
             hasOptimization(codeText), hasErrorHandling(codeText), hasAsync(codeText))

\* C18 as stated: every local fallback result is the tier base of the length
\* (embryonic below 50 characters, developing from 50) plus the bonuses of the
\* detected features, clamped (violated by the empty text, which is a tier of
\* its own: "empty", 0 points, complexity 0).
C18_TwoTiers ==
  nebSource.path = "local" => nebLatest = C18_Of(nebSource.code)

\* C18 amended: for every non-empty code text the local fallback result is the
\* tier base of the length plus the bonuses of exactly the detected features,
\* clamped, with the baseline suggestion followed by one suggestion per detected
\* feature in detection order; sixty characters with only the structural and
\* the comment feature give "developing" and 38 points.
C18_NonEmptyTiers ==
  /\ (nebSource.path = "local" /\ nebSource.code # << >>)
       => nebLatest = C18_Of(nebSource.code)
  /\ (nebSource.path = "local" /\ nebSource.code = Example60)
       => (nebLatest.style_feedback = "developing" /\ nebLatest.evolution_points = 38)

\* the sixty-character example has been analysed locally
C18_Witness ==
  /\ last.op = "nebula:sendCodeAnalysis"
  /\ nebSource.path = "local"
  /\ Len(nebSource.code) = 60
  /\ hasGoodStructure(nebSource.code) /\ hasComments(nebSource.code)
  /\ ~hasOptimization(nebSource.code) /\ ~hasErrorHandling(nebSource.code)
  /\ ~hasAsync(nebSource.code)
  /\ nebLatest.evolution_points = 38
  /\ Len(nebLatest.suggestions) = 3

\* C13: last-write-wins by arrival.  In the state right after an arrival the
\* cache holds exactly what arrived, whatever request it answers and whatever
\* the editor holds: an analysis_result frame of the primary hook, an
\* analysis_result frame of the alternate hook, an ok response to the POST of
\* AlgoNebulaContent (transformed for the text and metrics of its request).
C13_LastWriteWins ==
  /\ last.op = "message:analysis_result" => latestAnalysis = last.val
  /\ altLast = "message:analysis_result" => altLatest = << altArrived.val >>
  /\ last.op = "nebula:response:ok" =>
       /\ nebSource.path = "backend"
       /\ nebLatest = TransformBackend(nebSource.data, nebSource.code, nebSource.metrics)

\* a frame arrived after the user had typed and cleared the input again, and the
\* cache shows it
C13_Witness ==
  /\ last.op = "message:analysis_result"
  /\ lastChange # Null
  /\ code = << >>
  /\ latestAnalysis = last.val
  /\ latestAnalysis \in Results

\* C14: single-writer cache.  The latest analysis, the achievement buffer and
\* the session stats of the alternate hook change only in a step of onmessage
\* (violated: the continuations of fetchSessionStats and of the HTTP fallback of
\* sendCodeAnalysis write them, and so does its catch block).
C14_SingleWriter ==
  [][<<altLatest, altAchievements, altStats>>' # <<altLatest, altAchievements, altStats>>
       => altLast' \in {"message:analysis_result", "message:achievement",
                        "message:session_stats"}]_vars

C17_InRange(a) ==
  /\ 0 <= a.evolution_points /\ a.evolution_points <= 100
  /\ 0 <= a.complexity_score /\ a.complexity_score <= 10 * Centi

\* C17: every analysis in a cache has 0 <= evolution_points <= 100 and
\* 0 <= complexity_score <= 10 (violated: the transform of the backend's
\* response falls back to floor(codeText.length / 10) without a cap).
C17_Clamped ==
  /\ C17_InRange(nebLatest)
  /\ altLatest # Null => C17_InRange(altLatest[1])

C20_LogoutOn401 ==
  [][/\ last'.op = "auth:response:401" =>
          /\ token' = NoToken
          /\ storedToken' = NoToken
          /\ websocket' = NoSocket
          /\ websocket # NoSocket => readyState'[websocket] \in {"CLOSING", "CLOSED"}
          /\ Live(readyState') = {}
          /\ thrown'
          /\ BagCardinality(authRequests') = BagCardinality(authRequests) - 1
     /\ last'.op = "auth:request" =>
          IF token = NoToken
          THEN thrown' /\ authRequests' = authRequests
          ELSE /\ ~thrown'
               /\ authRequests' = authRequests (+) SetToBag({[tok |-> token]})
               /\ last'.val = token
               /\ token \notin revoked]_vars

\* a 401 arrived while a token was held and the socket was open: the token is
\* gone, the socket is closing, the call threw
C20_Witness ==
  /\ last.op = "auth:response:401"
  /\ thrown
  /\ token = NoToken
  /\ storedToken = NoToken
  /\ tokenSeq > 0
  /\ last.sock # NoSocket
  /\ readyState[last.sock] = "CLOSING"

\* C30: per-session analysis counter. sessionStats.analysisCount is the number
\* of analysis_result frames received since the current session became
\* active; in particular it is 0 in every state in which no session is
\* active, so a result that arrives outside a session is not counted.
C30_PerSessionCount ==
  ~sessionActive => sessionStats.analysisCount = 0

\* C27: exponential backoff. Every reconnect timer is armed with a delay of
\* 2^attempt seconds, attempt being the value of the attempt counter for
\* that retry; the delay is twice the delay armed for the previous failed
\* attempt when no open came in between, and it never exceeds
\* 2^maxReconnectAttempts seconds.
C27_ExponentialBackoff ==
  [][\A t \in Scheduled :
       /\ reconnectAttempts' = reconnectAttempts + 1
       /\ t.delay = (2 ^ reconnectAttempts') * 1000
       /\ lastDelay > 0 => t.delay = 2 * lastDelay
       /\ t.delay <= (2 ^ maxReconnectAttempts) * 1000]_vars

\* the fifth consecutive failed attempt has armed its timer with 32 s, after
\* the fourth had armed one with 16 s
C27_Witness ==
  /\ reconnectAttempts = maxReconnectAttempts
  /\ last.op \in {"fail", "close"}
  /\ last.ra = maxReconnectAttempts - 1
  /\ lastDelay = 32000
  /\ \E t \in BagToSet(reconnectTimers) : t.delay = 32000

\* C28: single heartbeat chain. After any sequence of opens, closes and
\* reconnects at most one heartbeat timer is pending, so at most one
\* heartbeat frame is sent per 30 s period.
C28_SingleHeartbeat ==
  heartbeatTimers <= 1

\* C24: transport-level errors set the state to Disconnected. After every
\* socket error, and after every close event of the current socket that the
\* client did not ask for (the socket was still OPEN), isConnected is false,
\* and the handler does not throw.
C24_TransportDown ==
  [][(\/ last'.op = "fail"
      \/ /\ last'.op = "close"
         /\ last'.sock = websocket
         /\ readyState[last'.sock] = "OPEN")
     => ~isConnected' /\ ~thrown']_vars

\* C23: a malformed inbound frame is dropped alone. The step that receives a
\* frame JSON.parse rejects changes no connection, cache or session state of
\* the hook that received it, arms no reconnect timer and leaves the socket
\* OPEN, so the frames after it are handled as if it had not arrived.
C23_MalformedDropped ==
  [][/\ last'.op = "malformed" =>
          /\ UNCHANGED <<apiVars, hookVars>>
          /\ readyState'[last'.sock] = "OPEN"
          /\ ~thrown'
     /\ altLast' = "malformed" =>
          /\ UNCHANGED <<altReady, altWsRef, altIsConnected, altTimers, altRefPending>>
          /\ UNCHANGED <<altSessionActive, altStats, altLatest, altAchievements, altHttp>>]_vars

\* a frame that does not parse arrived while a session was active and the
\* cache held a result
C23_Witness ==
  /\ last.op = "malformed"
  /\ websocket = last.sock
  /\ isConnected
  /\ sessionActive
  /\ latestAnalysis # NoResult

\* the same for the alternate hook, with an analysis in its cache
C23_WitnessAlt ==
  /\ altLast = "malformed"
  /\ altIsConnected
  /\ altLatest # Null

\* what a step changed of the primary hook: the connection flag, the latest
\* AnalysisResult, the achievement buffer, SessionStats, the session state,
\* the error channel
C22_Changed ==
  {e \in {"flag", "analysis", "achievements", "stats", "session", "error"} :
     CASE e = "flag" -> isConnected' # isConnected
       [] e = "analysis" -> latestAnalysis' # latestAnalysis
       [] e = "achievements" -> recentAchievements' # recentAchievements
       [] e = "stats" -> sessionStats' # sessionStats
       [] e = "session" -> sessionActive' # sessionActive
       [] e = "error" -> connectionError' # connectionError}

\* the same for the alternate hook, which has no error channel
C22_AltChanged ==
  {e \in {"flag", "analysis", "achievements", "stats", "session"} :
     CASE e = "flag" -> altIsConnected' # altIsConnected
       [] e = "analysis" -> altLatest' # altLatest
       [] e = "achievements" -> altAchievements' # altAchievements
       [] e = "stats" -> altStats' # altStats
       [] e = "session" -> altSessionActive' # altSessionActive}

\* the types the server may send to the primary hook
C22_Types == KnownTypes \cup {"unknown"}

\* the types the alternate hook has a case for
C22_AltKnown == {"analysis_result", "achievement", "session_stats"}

\* C22 as stated: a frame of an unknown type changes none of the six and the
\* connection stays open; a frame of a known type changes exactly one of
\* them, so never two.
C22_ExactlyOne ==
  [][/\ \A t \in C22_Types : last'.op = "message:" \o t =>
          /\ UNCHANGED apiVars
          /\ t \notin KnownTypes => C22_Changed = {}
          /\ t \in KnownTypes => Cardinality(C22_Changed) <= 1
     /\ \A t \in C22_AltKnown \cup {"other"} : altLast' = "message:" \o t =>
          /\ UNCHANGED <<altReady, altWsRef>>
          /\ t \notin C22_AltKnown => C22_AltChanged = {}
          /\ t \in C22_AltKnown => Cardinality(C22_AltChanged) <= 1]_vars

\* what the case of each type of the primary hook writes
C22_Allowed(t) ==
  CASE t = "connected" -> {"flag", "error"}
    [] t = "analysis_result" -> {"analysis", "stats"}
    [] t = "achievement_unlocked" -> {"achievements"}
    [] t = "session_started" -> {"session", "stats"}
    [] t = "session_ended" -> {"session", "stats"}
    [] t = "error" -> {"error"}
    [] OTHER -> {}

\* what the case of each type of the alternate hook writes
C22_AltAllowed(t) ==
  CASE t = "analysis_result" -> {"analysis"}
    [] t = "achievement" -> {"achievements"}
    [] t = "session_stats" -> {"stats"}
    [] OTHER -> {}

\* C22, amended: a frame of an unknown type changes none of the six and the
\* connection stays open; a frame of a known type changes only what its own
\* case writes, which is two of them for connected, analysis_result,
\* session_started and session_ended and none for planet_evolution.
C22_OwnCaseOnly ==
  [][/\ \A t \in C22_Types : last'.op = "message:" \o t =>
          /\ UNCHANGED apiVars
          /\ C22_Changed \subseteq C22_Allowed(t)
     /\ \A t \in C22_AltKnown \cup {"other"} : altLast' = "message:" \o t =>
          /\ UNCHANGED <<altReady, altWsRef>>
          /\ C22_AltChanged \subseteq C22_AltAllowed(t)]_vars

\* a frame of an unknown type arrived while the hook was connected, a session
\* was active, the cache held a result and the error channel an error
C22_Witness ==
  /\ last.op = "message:unknown"
  /\ isConnected
  /\ sessionActive
  /\ latestAnalysis # NoResult
  /\ connectionError = "server"
  /\ readyState[last.sock] = "OPEN"

\* C26: no implicit local-only session. In the HTTP hooks sessionActive
\* becomes true only in the step in which the backend's acceptance of the
\* start request arrives (alternate hook), and never while the backend is
\* known to be unreachable (hook of AlgoNebulaContent).
C26_NoLocalSession ==
  [][/\ ~altSessionActive /\ altSessionActive' => altLast' = "http:start:ok"
     /\ ~nebSessionActive /\ nebSessionActive' => nebConnected]_vars

\* C25: empty-input guard. In the step in which the code text of the
\* AlgoNebulaContent page becomes empty or whitespace-only no request goes to
\* the backend, and the cache holds the 'empty' result (evolutionPoints 0,
\* complexityScore 0, styleFeedback 'empty') after it.
C25_EmptyGuard ==
  [][(last'.op = "nebula:setCode" /\ Blank(code')) =>
       /\ nebFetches' = nebFetches
       /\ nebLatest'.evolution_points = 0
       /\ nebLatest'.complexity_score = 0
       /\ nebLatest'.style_feedback = "empty"]_vars

\* C29: connection scoping under user change. Once the connect for B has been
\* issued no socket addressed to A is connecting or open, and a close event of
\* a socket of A does not advance the retry counter.
C29_ScopedToUser ==
  hookUser = "B" =>
    /\ \A s \in DOMAIN readyState : sockUser[s] = "A" => s \notin Live(readyState)
    /\ (last.op \in {"close", "fail"} /\ sockUser[last.sock] = "A")
          => reconnectAttempts = last.ra

\* C21: graceful degradation. Every sendCodeAnalysis call with non-empty code
\* is followed by a state in which the cache holds a usable result for it:
\* in the hook of AlgoNebulaContent the cache was written for the code of the
\* call, by the local analyzer with its result for that code unless the
\* backend answered OK; in the alternate hook, whose call went to the HTTP
\* fallback because the socket was not open, the cache holds an analysis.
C21_GracefulDegradation ==
  /\ (last.op = "nebula:sendCodeAnalysis" /\ ~Blank(callArgs.code))
       ~> /\ nebSource.code = callArgs.code
          /\ nebSource.path \in {"local", "backend"}
          /\ nebSource.path = "local"
               => nebLatest = PerformLocalAnalysis(callArgs.code, callArgs.metrics)
  /\ (altLast = "sendCodeAnalysis:http") ~> (altLatest # Null)

====
